---------------------------- MODULE Spec2Model ----------------------------
(***************************************************************************)
(* Model of the volume_tracker scrapers: the append-only JSON Store        *)
(* (scrape.py), the Deduplicator (deduplicate_json.py), the date range     *)
(* generation and the Range Driver (scrape_date_range.py) and the per-day  *)
(* Venue-B scrape (scrape.py, scrape_stockwatch_trades).                   *)
(*                                                                         *)
(* Representation.  A file is its parsed content: absent, not parseable    *)
(* as JSON ("invalid": empty or cut short), JSON that is not a list        *)
(* ("nonarray"), or a JSON array of records.  A record is a function from  *)
(* the field names it carries to their values, so a field can be absent.   *)
(* Decimal prices are counted in cents.  A yyyymmdd string is the integer  *)
(* its digits spell.                                                       *)
(***************************************************************************)
EXTENDS Integers, Sequences, FiniteSets, TLC

VARIABLES
    dataset,    \* which dataset file the Store run is about: "trades" | "depth_chart"
    file,       \* the dataset file on disk
    old,        \* the file as it was before the last operation
    lastOp,     \* the last operation: its name, arguments, I/O outcome and result
    parts,      \* the record lists appended so far to a dataset that started empty
    start_date, \* generate_date_range: its first argument
    end_date,   \* generate_date_range: its second argument
    generated,  \* generate_date_range: what the call gave (nothing before the call)
    dayInput,   \* one day's scrape: symbol, date, today, credentials, portal
    dayResult,  \* one day's scrape: what the call gave (nothing before the call)
    fnInput,    \* one call of a function of scrape.py: its name and arguments
    fnResult,   \* one call of a function of scrape.py: what the call gave
    today,      \* range run: datetime.now(), as yyyymmdd
    args,       \* range run: the parsed command line
    environ,    \* range run: where the credentials come from
    pc,         \* range run: where main() of scrape_date_range.py stands
    range_dates,      \* range run: dates, the list generate_date_range gave
    day_idx,          \* range run: idx, the position in dates of the current day
    day_trades,       \* range run: trades, the list the day's scrape returned
    successful_dates, \* range run: the list of that name
    failed_dates,     \* range run: the list of that name, of <<date, reason>>
    total_trades,     \* range run: the counter of that name
    summary,          \* range run: the dictionary scrape_date_range returns
    file_at_start,    \* range run: trades.json when the run began
    log               \* range run: what each day's scrape met and gave, in order

storeVars == <<dataset, file, old, lastOp, parts>>
dateVars == <<start_date, end_date, generated>>

dayVars == <<dayInput, dayResult>>
callVars == <<fnInput, fnResult>>
rangeVars == <<today, args, environ, pc, range_dates, day_idx, day_trades,
               successful_dates, failed_dates, total_trades, summary,
               file_at_start, log>>

vars == <<storeVars, dateVars, dayVars, callVars, rangeVars>>

-----------------------------------------------------------------------------
(* Bounds *)

MaxFile == 4      \* longest dataset file, in records
\* longest record list handed to one Store call: half a file
MaxNew == MaxFile \div 2

-----------------------------------------------------------------------------
(* Files and records *)

Absent == [kind |-> "absent", recs |-> <<>>]
Invalid == [kind |-> "invalid", recs |-> <<>>]
NonArray == [kind |-> "nonarray", recs |-> <<>>]
Arr(s) == [kind |-> "array", recs |-> s]

SeqsUpTo(S, n) == UNION {[1..k -> S] : k \in 0..n}

\* dict.get(field, default)
Get(rec, field, default) == IF field \in DOMAIN rec THEN rec[field] ELSE default

TradeX == [symbol |-> "DOCT", date |-> 20241115, time_et |-> "09:30:00",
           exchange |-> "C", price |-> 150, volume |-> 100,
           buyer |-> "7", seller |-> "9", markers |-> ""]
\* the same execution as TradeX, with another annotation (not an identity field)
TradeX2 == [TradeX EXCEPT !.markers = "X"]
TradeY == [TradeX EXCEPT !.time_et = "09:31:00"]
\* a trade whose price column was not mapped: the field is absent
TradeZ == [symbol |-> "DOCT", date |-> 20241115, time_et |-> "09:32:00",
           volume |-> 200, markers |-> ""]
Trades == {TradeX, TradeX2, TradeY, TradeZ}

DepthA == [timestamp |-> "2024-11-15", price |-> 150, volume |-> 500,
           buyer_broker |-> "ABC", seller_broker |-> "XYZ",
           bid_price |-> 150, ask_price |-> 152, bid_size |-> 500, ask_size |-> 300]
\* the same book level as DepthA, with a trade_id (not an identity field)
DepthA2 == [timestamp |-> "2024-11-15", price |-> 150, volume |-> 500,
            buyer_broker |-> "ABC", seller_broker |-> "XYZ",
            bid_price |-> 150, ask_price |-> 152, bid_size |-> 500, ask_size |-> 300,
            trade_id |-> "T1"]
DepthB == [DepthA EXCEPT !.buyer_broker = "DEF"]
\* a plain row: no bid/ask fields
DepthC == [timestamp |-> "2024-11-15", price |-> 151, volume |-> 100,
           buyer_broker |-> "ABC", seller_broker |-> "XYZ"]
DepthRows == {DepthA, DepthA2, DepthB, DepthC}

Records(ds) == IF ds = "trades" THEN Trades ELSE DepthRows

\* what the operating system does with open(filename, 'w') + json.dump
IOOutcomes == {"ok", "open_fails", "dump_fails"}

\* the file after open(filename, 'w') and json.dump(content) with outcome io
WriteFile(f, content, io) ==
    IF io = "ok" THEN Arr(content)
    ELSE IF io = "open_fails" THEN f
    ELSE Invalid

\* where the process can be stopped (killed, KeyboardInterrupt) within
\* "with open(filename, 'w') as f: json.dump(content, f)"
InterruptPoints == {"before_open", "after_open", "during_dump"}

\* the file left behind: open(filename, 'w') truncates it, and a dump cut
\* short leaves text that is not JSON
InterruptedFile(f, point) == IF point = "before_open" THEN f ELSE Invalid

-----------------------------------------------------------------------------
(* Store: scrape.py *)

\* all_trades = existing_trades + trades
CombineSwapped(existing, trades) == trades \o existing
CombineOverwrites(existing, trades) == trades
Combine(existing, trades) == existing \o trades

\* save_stockwatch_trades(trades, filename): the file afterwards.  Nothing is
\* raised: every exception ends in the outer except, which prints.
save_stockwatch_trades(f, trades, io) ==
    IF f.kind = "nonarray"
    THEN f     \* json.load gives a non-list; len() or + raises TypeError, caught
    ELSE LET existing_trades ==
                 IF f.kind = "array" THEN f.recs
                 ELSE <<>>    \* no file, or JSONDecodeError: start fresh
         IN WriteFile(f, Combine(existing_trades, trades), io)

\* whether save_stockwatch_trades reaches open(filename, 'w')
save_stockwatch_trades_writes(f) == f.kind # "nonarray"

\* whether an exception leaves save_stockwatch_trades: none does, the body is
\* inside try ... except Exception, which prints
save_stockwatch_trades_raises_on_error(f, io) == f.kind = "nonarray" \/ io # "ok"
save_stockwatch_trades_raises(f, io) == FALSE

\* save_to_json(trades, filename, append)
save_to_json(f, trades, append, io) ==
    IF append /\ f.kind = "nonarray"
    THEN f
    ELSE LET existing_trades ==
                 IF append /\ f.kind = "array" THEN f.recs
                 ELSE <<>>
         IN WriteFile(f, Combine(existing_trades, trades), io)

save_to_json_writes(f, append) == ~(append /\ f.kind = "nonarray")

-----------------------------------------------------------------------------
(* Deduplicator: deduplicate_json.py *)

\* a key in which a field that is absent differs from every value
get_trade_key_absent_differs(trade) ==
    <<Get(trade, "date", -1), Get(trade, "time_et", "absent"),
      Get(trade, "exchange", "absent"), Get(trade, "price", -1),
      Get(trade, "volume", -1), Get(trade, "buyer", "absent"),
      Get(trade, "seller", "absent")>>

\* get_trade_key(trade): trade.get(field, default) for the seven fields
get_trade_key(trade) ==
    \* the empty string, as a yyyymmdd value, is 0
    <<Get(trade, "date", 0), Get(trade, "time_et", ""), Get(trade, "exchange", ""),
      Get(trade, "price", 0), Get(trade, "volume", 0),
      Get(trade, "buyer", ""), Get(trade, "seller", "")>>

get_depth_chart_key(entry) ==
    <<Get(entry, "timestamp", ""), Get(entry, "price", 0), Get(entry, "volume", 0),
      Get(entry, "buyer_broker", ""), Get(entry, "seller_broker", ""),
      Get(entry, "bid_price", 0), Get(entry, "ask_price", 0),
      Get(entry, "bid_size", 0), Get(entry, "ask_size", 0)>>

\* a deduplication that keeps, for a repeated key, the later record in the
\* place of the first (the records held in a dict by key)
RECURSIVE UniqueTradesKeepsLast(_, _, _, _)
UniqueTradesKeepsLast(trades, i, seen, unique_trades) ==
    IF i > Len(trades) THEN unique_trades
    ELSE LET key == get_trade_key(trades[i])
         IN IF key \notin seen
            THEN UniqueTradesKeepsLast(trades, i + 1, seen \cup {key},
                                       Append(unique_trades, trades[i]))
            ELSE UniqueTradesKeepsLast(trades, i + 1, seen,
                     [k \in DOMAIN unique_trades |->
                         IF get_trade_key(unique_trades[k]) = key THEN trades[i]
                         ELSE unique_trades[k]])

\* a deduplication that compares a record with the one before it only
RECURSIVE UniqueTradesAdjacent(_, _, _, _)
UniqueTradesAdjacent(trades, i, seen, unique_trades) ==
    IF i > Len(trades) THEN unique_trades
    ELSE LET key == get_trade_key(trades[i])
         IN IF key \notin seen
            THEN UniqueTradesAdjacent(trades, i + 1, {key}, Append(unique_trades, trades[i]))
            ELSE UniqueTradesAdjacent(trades, i + 1, seen, unique_trades)

\* the loop of deduplicate_trades from position i on
RECURSIVE UniqueTrades(_, _, _, _)
UniqueTrades(trades, i, seen, unique_trades) ==
    IF i > Len(trades) THEN unique_trades
    ELSE LET key == get_trade_key(trades[i])
         IN IF key \notin seen
            THEN UniqueTrades(trades, i + 1, seen \cup {key}, Append(unique_trades, trades[i]))
            ELSE UniqueTrades(trades, i + 1, seen, unique_trades)

\* the loop of deduplicate_depth_chart from position i on
RECURSIVE UniqueEntries(_, _, _, _)
UniqueEntries(entries, i, seen, unique_entries) ==
    IF i > Len(entries) THEN unique_entries
    ELSE LET key == get_depth_chart_key(entries[i])
         IN IF key \notin seen
            THEN UniqueEntries(entries, i + 1, seen \cup {key}, Append(unique_entries, entries[i]))
            ELSE UniqueEntries(entries, i + 1, seen, unique_entries)

\* a deduplicator that writes the file back whether or not anything was removed
DedupFinishAlwaysWrites(f, unique, io) ==
    [file |-> WriteFile(f, unique, io),
     removed |-> IF io = "ok" THEN Len(f.recs) - Len(unique) ELSE 0,
     wrote |-> TRUE]

\* a run of the deduplicator that read the array f.recs and kept `unique`
DedupFinish(f, unique, io) ==
    LET duplicates_removed == Len(f.recs) - Len(unique)
    IN IF duplicates_removed > 0
       THEN [file |-> WriteFile(f, unique, io),
             \* an exception of the write is caught: return 0
             removed |-> IF io = "ok" THEN duplicates_removed ELSE 0,
             wrote |-> TRUE]
       ELSE [file |-> f, removed |-> 0, wrote |-> FALSE]

\* a deduplicator that starts a fresh array where it finds none
deduplicate_trades_starts_fresh(f, io) ==
    IF f.kind # "array"
    THEN [file |-> WriteFile(f, <<>>, io), removed |-> 0, wrote |-> TRUE]
    ELSE DedupFinish(f, UniqueTrades(f.recs, 1, {}, <<>>), io)

\* deduplicate_trades(filename): the file afterwards, the count returned and
\* whether the file was opened for writing
deduplicate_trades(f, io) ==
    IF f.kind # "array"
    THEN [file |-> f, removed |-> 0, wrote |-> FALSE]
    ELSE DedupFinish(f, UniqueTrades(f.recs, 1, {}, <<>>), io)

deduplicate_depth_chart(f, io) ==
    IF f.kind # "array"
    THEN [file |-> f, removed |-> 0, wrote |-> FALSE]
    ELSE DedupFinish(f, UniqueEntries(f.recs, 1, {}, <<>>), io)

-----------------------------------------------------------------------------
(* Dates: datetime.strptime / strftime / timedelta as scrape_date_range.py   *)
(* uses them.  A datetime at midnight is [y, m, d].                          *)

\* the years the date arithmetic of the model covers
Years == 2023..2026

IsLeap(y) == (y % 4 = 0) /\ ((y % 100 # 0) \/ (y % 400 = 0))

DaysInMonth(y, m) ==
    IF m = 2 THEN (IF IsLeap(y) THEN 29 ELSE 28)
    ELSE IF m \in {4, 6, 9, 11} THEN 30 ELSE 31

\* datetime.strptime(s, "%Y%m%d") of an 8-digit string: the datetime, or
\* ValueError
strptime(s) ==
    LET y == s \div 10000
        m == (s \div 100) % 100
        d == s % 100
    IN IF y >= 1 /\ m \in 1..12 /\ d >= 1 /\ d <= DaysInMonth(y, m)
       THEN [ok |-> TRUE, y |-> y, m |-> m, d |-> d]
       ELSE [ok |-> FALSE, y |-> 0, m |-> 0, d |-> 0]

\* dt.strftime("%Y%m%d")
strftime(dt) == dt.y * 10000 + dt.m * 100 + dt.d

\* datetime comparison: a <= b, a > b
DtLE(a, b) ==
    \/ a.y < b.y
    \/ a.y = b.y /\ a.m < b.m
    \/ a.y = b.y /\ a.m = b.m /\ a.d <= b.d
DtGT(a, b) == ~DtLE(a, b)

\* the days before January 1st of year y, and before the 1st of month m
DaysBeforeYear(y) == (y - 1) * 365 + ((y - 1) \div 4) - ((y - 1) \div 100) + ((y - 1) \div 400)
RECURSIVE DaysBeforeMonth(_, _)
DaysBeforeMonth(y, m) == IF m = 1 THEN 0 ELSE DaysBeforeMonth(y, m - 1) + DaysInMonth(y, m - 1)

ToOrdinal(dt) == DaysBeforeYear(dt.y) + DaysBeforeMonth(dt.y, dt.m) + dt.d

FromOrdinal(n) ==
    LET y == CHOOSE yy \in Years : DaysBeforeYear(yy) < n /\ n <= DaysBeforeYear(yy + 1)
        r == n - DaysBeforeYear(y)
        m == CHOOSE mm \in 1..12 :
                 DaysBeforeMonth(y, mm) < r /\ r <= DaysBeforeMonth(y, mm) + DaysInMonth(y, mm)
    IN [ok |-> TRUE, y |-> y, m |-> m, d |-> r - DaysBeforeMonth(y, m)]

\* dt + timedelta(days=n)
AddDays(dt, n) == FromOrdinal(ToOrdinal(dt) + n)

-----------------------------------------------------------------------------
(* Range generation: scrape_date_range.py *)

\* a loop that stops one day early: while current < end
RECURSIVE DatesLoopExclusive(_, _, _)
DatesLoopExclusive(current, end, dates) ==
    IF DtLE(current, end) /\ current # end
    THEN DatesLoopExclusive(AddDays(current, 1), end, Append(dates, strftime(current)))
    ELSE dates

\* while current <= end: dates.append(...); current += timedelta(days=1)
RECURSIVE DatesLoop(_, _, _)
DatesLoop(current, end, dates) ==
    IF DtLE(current, end)
    THEN DatesLoop(AddDays(current, 1), end, Append(dates, strftime(current)))
    ELSE dates

\* generate_date_range(start_date, end_date): the list, or ValueError raised
generate_date_range(sd, ed) ==
    LET start == strptime(sd)
        end == strptime(ed)
    IN IF ~start.ok \/ ~end.ok
       THEN [raised |-> TRUE, error |-> "Invalid date format", dates |-> <<>>]
       ELSE IF DtGT(start, end)
       THEN [raised |-> TRUE, error |-> "Start date must be before or equal to end date",
             dates |-> <<>>]
       ELSE [raised |-> FALSE, error |-> "", dates |-> DatesLoop(start, end, <<>>)]

-----------------------------------------------------------------------------
(* The Store and the Deduplicator at work on one dataset file *)

NoOp == [op |-> "none", recs |-> <<>>, append |-> TRUE, io |-> "ok",
         removed |-> 0, wrote |-> FALSE, afterDedup |-> FALSE, prevRemoved |-> 0]

IsEmptyDataset(f) == f.kind = "absent" \/ (f.kind = "array" /\ f.recs = <<>>)

\* the variables of the other runs, at rest
DatesIdle == start_date = 0 /\ end_date = 0 /\ generated = [called |-> FALSE]
DayIdle == dayInput = [called |-> FALSE] /\ dayResult = [called |-> FALSE]
CallIdle == fnInput = [op |-> "none"] /\ fnResult = [called |-> FALSE]
RangeIdle ==
    /\ today = 0 /\ args = [days |-> 0] /\ environ = [env_user |-> ""] /\ pc = "idle"
    /\ range_dates = <<>> /\ day_idx = 0 /\ day_trades = <<>>
    /\ successful_dates = <<>> /\ failed_dates = <<>> /\ total_trades = 0
    /\ summary = [returned |-> FALSE] /\ file_at_start = Absent /\ log = <<>>

StoreInit ==
    /\ DatesIdle /\ DayIdle /\ CallIdle /\ RangeIdle
    /\ dataset \in {"trades", "depth_chart"}
    /\ file \in {Absent, Invalid, NonArray}
                 \cup {Arr(s) : s \in SeqsUpTo(Records(dataset), MaxFile)}
    /\ old = file
    /\ lastOp = NoOp
    /\ parts = [live |-> IsEmptyDataset(file), lists |-> <<>>]

\* the first two appended lists are remembered while the dataset, empty at the
\* start, has seen nothing but appends that were written
PartsAfterAppend(trades, append, wrote, io) ==
    IF parts.live /\ append /\ wrote /\ io = "ok" /\ lastOp.op \in {"none", "append"}
       /\ Len(parts.lists) < 2
    THEN [live |-> TRUE, lists |-> Append(parts.lists, trades)]
    ELSE [live |-> FALSE, lists |-> <<>>]

\* the longest list the next Store call is handed: the file stays within MaxFile
Room == IF MaxFile - Len(file.recs) < MaxNew THEN MaxFile - Len(file.recs) ELSE MaxNew

\* the last operation was a deduplicator run that met no I/O error
DedupCompleted == lastOp.op = "dedup" /\ lastOp.io = "ok"

\* the single-day scraper or the range driver stores a day's trades
SaveStockwatchTrades ==
    /\ dataset = "trades"
    /\ \E trades \in SeqsUpTo(Trades, Room), io \in IOOutcomes :
          LET wrote == save_stockwatch_trades_writes(file)
          IN /\ wrote \/ io = "ok"
             /\ file' = save_stockwatch_trades(file, trades, io)
             /\ old' = file
             /\ lastOp' = [op |-> "append", recs |-> trades, append |-> TRUE, io |-> io,
                           removed |-> 0, wrote |-> wrote,
                           afterDedup |-> DedupCompleted,
                           prevRemoved |-> IF DedupCompleted THEN lastOp.removed ELSE 0]
             /\ parts' = PartsAfterAppend(trades, TRUE, wrote, io)
    /\ UNCHANGED <<dataset, dateVars, dayVars, callVars, rangeVars>>

\* the Venue-A rows are stored: appended by the single-day scraper
\* (append=True), overwritten by the range driver (append=False)
SaveToJson ==
    /\ dataset = "depth_chart"
    /\ \E trades \in SeqsUpTo(DepthRows, Room), append \in BOOLEAN, io \in IOOutcomes :
          LET wrote == save_to_json_writes(file, append)
          IN /\ wrote \/ io = "ok"
             /\ file' = save_to_json(file, trades, append, io)
             /\ old' = file
             /\ lastOp' = [op |-> "append", recs |-> trades, append |-> append, io |-> io,
                           removed |-> 0, wrote |-> wrote,
                           afterDedup |-> DedupCompleted,
                           prevRemoved |-> IF DedupCompleted THEN lastOp.removed ELSE 0]
             /\ parts' = PartsAfterAppend(trades, append, wrote, io)
    /\ UNCHANGED <<dataset, dateVars, dayVars, callVars, rangeVars>>

\* one call of the deduplicator on the dataset file, as main() makes it
Deduplicate ==
    /\ \E io \in IOOutcomes :
          LET r == IF dataset = "trades" THEN deduplicate_trades(file, io)
                   ELSE deduplicate_depth_chart(file, io)
          IN /\ r.wrote \/ io = "ok"
             /\ file' = r.file
             /\ old' = file
             /\ lastOp' = [op |-> "dedup", recs |-> <<>>, append |-> TRUE, io |-> io,
                           removed |-> r.removed, wrote |-> r.wrote,
                           afterDedup |-> DedupCompleted,
                           prevRemoved |-> IF DedupCompleted THEN lastOp.removed ELSE 0]
             /\ parts' = IF io = "ok" THEN parts ELSE [live |-> FALSE, lists |-> <<>>]
    /\ UNCHANGED <<dataset, dateVars, dayVars, callVars, rangeVars>>

\* the process is stopped within the write of a Store append or of the
\* deduplicator's write-back (which is made when duplicates were removed)
InterruptedWrite ==
    /\ \E op \in {"append", "dedup"}, point \in InterruptPoints :
          LET r == IF dataset = "trades" THEN deduplicate_trades(file, "ok")
                   ELSE deduplicate_depth_chart(file, "ok")
              reached == IF op = "dedup" THEN r.wrote
                         ELSE IF dataset = "trades" THEN save_stockwatch_trades_writes(file)
                         ELSE save_to_json_writes(file, TRUE)
          IN /\ reached
             /\ file' = InterruptedFile(file, point)
             /\ old' = file
             /\ lastOp' = [op |-> "interrupted", recs |-> <<>>, append |-> TRUE,
                           io |-> point, removed |-> 0, wrote |-> point # "before_open",
                           afterDedup |-> FALSE, prevRemoved |-> 0, during |-> op]
             /\ parts' = [live |-> FALSE, lists |-> <<>>]
    /\ UNCHANGED <<dataset, dateVars, dayVars, callVars, rangeVars>>

StoreNext == SaveStockwatchTrades \/ SaveToJson \/ Deduplicate \/ InterruptedWrite

SpecStore == StoreInit /\ [][StoreNext]_vars

-----------------------------------------------------------------------------
(* Claims about the Store and the Deduplicator *)

\* the identity tuple of a record of the dataset at hand
KeyOf(r) == IF dataset = "trades" THEN get_trade_key(r) ELSE get_depth_chart_key(r)

KeysOf(s) == {KeyOf(s[i]) : i \in 1..Len(s)}

\* no two records of s share an identity tuple
NoRepeat(s) == \A i, j \in 1..Len(s) : KeyOf(s[i]) = KeyOf(s[j]) => i = j

\* the positions of s that hold the first occurrence of their identity tuple
FirstIdx(s) == {i \in 1..Len(s) : \A j \in 1..(i - 1) : KeyOf(s[j]) # KeyOf(s[i])}

\* the n-th smallest member of the set of positions I
Nth(I, n) == CHOOSE k \in I : Cardinality({m \in I : m <= k}) = n

\* C1: after a Store append (save_stockwatch_trades, or save_to_json with
\* append=True) to a file holding a JSON array, the file holds the old records
\* first, in their old order, then the new records in caller order, none
\* dropped, changed or reordered.  (The operating system completes the write.)
C1_AppendIsOldThenNew ==
    (lastOp.op = "append" /\ lastOp.append /\ lastOp.io = "ok" /\ old.kind = "array")
    => /\ file.kind = "array"
       /\ Len(file.recs) = Len(old.recs) + Len(lastOp.recs)
       /\ \A i \in 1..Len(old.recs) : file.recs[i] = old.recs[i]
       /\ \A j \in 1..Len(lastOp.recs) : file.recs[Len(old.recs) + j] = lastOp.recs[j]

C1_Witness ==
    /\ lastOp.op = "append" /\ lastOp.append /\ lastOp.io = "ok"
    /\ old = Arr(<<TradeY, TradeX>>)
    /\ lastOp.recs = <<TradeZ, TradeX2>>

\* C2: after a Deduplicator pass over a file holding a JSON array, the file
\* holds the subsequence of the pre-pass array made of the first occurrence of
\* each identity tuple: no two records share a tuple, every tuple of the input
\* is still there, the kept records are unmodified and in their original
\* relative order.  (The operating system completes the write.)
C2_DedupKeepsFirstOccurrences ==
    (lastOp.op = "dedup" /\ lastOp.io = "ok" /\ old.kind = "array")
    => /\ file.kind = "array"
       /\ NoRepeat(file.recs)
       /\ KeysOf(file.recs) = KeysOf(old.recs)
       /\ Len(file.recs) = Cardinality(FirstIdx(old.recs))
       /\ \A n \in 1..Len(file.recs) : file.recs[n] = old.recs[Nth(FirstIdx(old.recs), n)]

C2_Witness ==
    /\ lastOp.op = "dedup" /\ lastOp.io = "ok"
    /\ old = Arr(<<TradeX, TradeY, TradeX2, TradeZ>>)
    /\ file = Arr(<<TradeX, TradeY, TradeZ>>)

\* C3: a second run of the deduplicator, right after a first one, leaves the
\* file identical to the result of the first run, returns removed=0 and does
\* not open the file for writing.  (The first run met no I/O error.)
C3_DedupIdempotent ==
    (lastOp.op = "dedup" /\ lastOp.afterDedup)
    => /\ file = old
       /\ lastOp.removed = 0
       /\ ~lastOp.wrote

\* the first run removed a duplicate, the second run has been made
C3_Witness ==
    /\ lastOp.op = "dedup" /\ lastOp.afterDedup
    /\ lastOp.prevRemoved > 0
    /\ file.kind = "array" /\ Len(file.recs) >= 2

\* the lists A and B appended, in this order, to a dataset that started empty,
\* a deduplicator pass having been made after them
AppendedTwoThenDedup ==
    /\ lastOp.op = "dedup" /\ lastOp.io = "ok"
    /\ parts.live /\ Len(parts.lists) = 2

KeysDisjoint(A, B) == KeysOf(A) \cap KeysOf(B) = {}

\* C4 as stated: for lists A and B that share no identity tuple, appending A,
\* then B, to an empty dataset and deduplicating leaves |A|+|B| records.
C4_Original ==
    (AppendedTwoThenDedup /\ KeysDisjoint(parts.lists[1], parts.lists[2]))
    => (file.kind = "array"
        /\ Len(file.recs) = Len(parts.lists[1]) + Len(parts.lists[2]))

\* C4, amended: for lists A and B that share no identity tuple and of which
\* neither holds two records with the same identity tuple, appending A, then B,
\* to an empty dataset and deduplicating leaves |A|+|B| records.
C4_DisjointAppendsKeepAll ==
    (/\ AppendedTwoThenDedup
     /\ KeysDisjoint(parts.lists[1], parts.lists[2])
     /\ NoRepeat(parts.lists[1]) /\ NoRepeat(parts.lists[2]))
    => (file.kind = "array"
        /\ Len(file.recs) = Len(parts.lists[1]) + Len(parts.lists[2]))

C4_Witness ==
    /\ AppendedTwoThenDedup
    /\ parts.lists = << <<TradeX, TradeY>>, <<TradeZ>> >>
    /\ old = Arr(<<TradeX, TradeY, TradeZ>>)

-----------------------------------------------------------------------------
(* generate_date_range called on a pair of yyyymmdd strings *)

\* the strings tried: around a leap day, around a year end and around the end
\* of a non-leap February, with days and a month no calendar has
LeapWindow == {20240227, 20240228, 20240229, 20240230, 20240301, 20240302}
YearEndWindow == {20241228, 20241229, 20241230, 20241231, 20241232,
                  20250100, 20250101, 20250102, 20250103}
FebruaryWindow == {20250227, 20250228, 20250229, 20250301, 20251301}
DateWindows == {LeapWindow, YearEndWindow, FebruaryWindow}

StoreIdle ==
    /\ dataset = "trades" /\ file = Absent /\ old = Absent
    /\ lastOp = NoOp /\ parts = [live |-> FALSE, lists |-> <<>>]

DatesInit ==
    /\ StoreIdle /\ DayIdle /\ CallIdle /\ RangeIdle
    /\ \E W \in DateWindows : start_date \in W /\ end_date \in W
    /\ generated = [called |-> FALSE]

GenerateDateRange ==
    /\ ~generated.called
    /\ generated' = [called |-> TRUE, result |-> generate_date_range(start_date, end_date)]
    /\ UNCHANGED <<start_date, end_date, storeVars, dayVars, callVars, rangeVars>>

DatesNext == GenerateDateRange

SpecDates == DatesInit /\ [][DatesNext]_vars

-----------------------------------------------------------------------------
(* Claims about the range generation *)

\* the calendar day after the valid day s, by the calendar's rollover rules
NextCalendarDay(s) ==
    LET y == s \div 10000
        m == (s \div 100) % 100
        d == s % 100
    IN IF d < DaysInMonth(y, m) THEN s + 1
       ELSE IF m < 12 THEN y * 10000 + (m + 1) * 100 + 1
       ELSE (y + 1) * 10000 + 101

\* how many days the inclusive range a..b counts, a <= b both valid
RECURSIVE DaysFromTo(_, _)
DaysFromTo(a, b) == IF a = b THEN 1 ELSE 1 + DaysFromTo(NextCalendarDay(a), b)

\* s is a list of consecutive calendar days, oldest first
Consecutive(s) == \A i \in 1..(Len(s) - 1) : s[i + 1] = NextCalendarDay(s[i])

BothValid == strptime(start_date).ok /\ strptime(end_date).ok

\* C5: generate_date_range(start, end) returns the inclusive list of
\* consecutive calendar days from start to end, oldest first: the range
\* d..d+k-1 has length k, the range d..d is [d], and a start later than the end
\* raises the BadDate error (ValueError) instead of returning a list.
C5_RangeIsInclusiveConsecutive ==
    (generated.called /\ BothValid)
    => LET r == generated.result
       IN IF start_date <= end_date
          THEN /\ ~r.raised
               /\ Len(r.dates) = DaysFromTo(start_date, end_date)
               /\ r.dates[1] = start_date
               /\ r.dates[Len(r.dates)] = end_date
               /\ Consecutive(r.dates)
               /\ (start_date = end_date => r.dates = <<start_date>>)
          ELSE r.raised /\ r.dates = <<>>

\* the four days over a year end
C5_Witness ==
    /\ generated.called
    /\ start_date = 20241230 /\ end_date = 20250102
    /\ generated.result.dates = <<20241230, 20241231, 20250101, 20250102>>

-----------------------------------------------------------------------------
(* Credentials: auth.py *)

\* Python's None (a number no cell, date or count spells)
None == -999999

\* str.strip() on the credential strings of the model
Strip(str) ==
    IF str = "  " THEN ""
    ELSE IF str = " alice " THEN "alice"
    ELSE str

\* load_stockwatch_auth(): the pair, or the exception raised.  env_user and
\* env_pass are the environment variables ("" when unset); secrets is what
\* secrets.json holds.
load_stockwatch_auth(a) ==
    IF a.env_user # "" /\ a.env_pass # ""
    THEN [raised |-> FALSE, exc |-> "", msg |-> "",
          username |-> a.env_user, password |-> a.env_pass]
    ELSE IF a.secrets.kind = "absent"
    THEN [raised |-> TRUE, exc |-> "FileNotFoundError",
          msg |-> "Authentication file 'secrets.json' not found",
          username |-> "", password |-> ""]
    ELSE IF a.secrets.kind = "invalid_json"
    THEN [raised |-> TRUE, exc |-> "JSONDecodeError",
          msg |-> "Invalid JSON in secrets.json",
          username |-> "", password |-> ""]
    ELSE IF a.secrets.kind = "not_object"
    THEN [raised |-> TRUE, exc |-> "ValueError",
          msg |-> "secrets.json must contain a JSON object",
          username |-> "", password |-> ""]
    ELSE IF ~a.secrets.has_username \/ ~a.secrets.has_password
    THEN [raised |-> TRUE, exc |-> "ValueError",
          msg |-> "secrets.json must contain 'username' and 'password' fields",
          username |-> "", password |-> ""]
    ELSE [raised |-> FALSE, exc |-> "", msg |-> "",
          username |-> a.secrets.username, password |-> a.secrets.password]

SecretsObject(u, pw) ==
    [kind |-> "object", has_username |-> TRUE, has_password |-> TRUE,
     username |-> u, password |-> pw]
SecretsOther(k) ==
    [kind |-> k, has_username |-> FALSE, has_password |-> FALSE,
     username |-> "", password |-> ""]

\* the credential sources tried
AuthGood == [env_user |-> "", env_pass |-> "", secrets |-> SecretsObject(" alice ", "pw")]
AuthFromEnv == [env_user |-> "alice", env_pass |-> "pw", secrets |-> SecretsOther("absent")]
AuthMissing == [env_user |-> "alice", env_pass |-> "", secrets |-> SecretsOther("absent")]
AuthInvalidJson == [env_user |-> "", env_pass |-> "", secrets |-> SecretsOther("invalid_json")]
AuthNotObject == [env_user |-> "", env_pass |-> "", secrets |-> SecretsOther("not_object")]
AuthNoPassword ==
    [env_user |-> "", env_pass |-> "",
     secrets |-> [kind |-> "object", has_username |-> TRUE, has_password |-> FALSE,
                  username |-> "alice", password |-> ""]]
AuthPlaceholder ==
    [env_user |-> "", env_pass |-> "",
     secrets |-> SecretsObject("your_username_here", "your_password_here")]
AuthEmptyPassword == [env_user |-> "", env_pass |-> "", secrets |-> SecretsObject("alice", "")]
AuthBlankPassword == [env_user |-> "", env_pass |-> "", secrets |-> SecretsObject("alice", "  ")]
AuthEnvPlaceholder ==
    [env_user |-> "your_username_here", env_pass |-> "pw", secrets |-> SecretsOther("absent")]
AuthEnvs == {AuthGood, AuthFromEnv, AuthMissing, AuthInvalidJson, AuthNotObject,
             AuthNoPassword, AuthPlaceholder, AuthEmptyPassword, AuthBlankPassword,
             AuthEnvPlaceholder}

-----------------------------------------------------------------------------
(* Venue B, what the portal shows.  A page is the portal's behaviour during  *)
(* one day's scrape, one field per step of the scraper.                      *)

error_indicators == {"invalid", "incorrect", "error", "failed", "wrong", "trouble logging"}

\* the login page: the navigation, the three form elements, then the words of
\* error_indicators the content holds after the click and what the URL holds
LoginPage(nav, form, content, url_login, url_domain) ==
    [nav |-> nav, form |-> form, content |-> content,
     url_login |-> url_login, url_domain |-> url_domain]
LoginOk == LoginPage("ok", "ok", {}, FALSE, TRUE)
LoginUnclear == LoginPage("ok", "ok", {}, TRUE, FALSE)
LoginInvalid == LoginPage("ok", "ok", {"invalid"}, TRUE, TRUE)
LoginError == LoginPage("ok", "ok", {"error", "failed"}, FALSE, TRUE)
LoginNavTimeout == LoginPage("timeout", "ok", {}, FALSE, TRUE)
LoginFormMissing == LoginPage("ok", "missing", {}, FALSE, TRUE)
LoginPages == {LoginOk, LoginUnclear, LoginInvalid, LoginError,
               LoginNavTimeout, LoginFormMissing}

\* a login check that takes an unclear URL for a failure
login_stockwatch_unclear_fails(lp) ==
    IF lp.nav # "ok" \/ lp.form # "ok" THEN FALSE
    ELSE IF \E indicator \in error_indicators : indicator \in lp.content THEN FALSE
    ELSE ~lp.url_login \/ lp.url_domain

\* login_stockwatch(page, username, password)
login_stockwatch(lp) ==
    IF lp.nav # "ok" \/ lp.form # "ok"
    THEN FALSE          \* an exception inside: caught, return False
    ELSE IF \E indicator \in error_indicators : indicator \in lp.content
    THEN FALSE
    ELSE IF ~lp.url_login \/ lp.url_domain
    THEN TRUE
    ELSE TRUE           \* status unclear: assume success

-----------------------------------------------------------------------------
(* Venue B, the trades table: scrape.py, scrape_stockwatch_trades            *)

\* A header cell is the set of the words the mapping looks for that its
\* lowercased text contains.
HTimeET == {"time", "et"}                    \* "Time ET"
HEx == {"ex"}                                \* "Ex"
HExchange == {"exchange", "ex", "change"}    \* "Exchange"
HPrice == {"price"}                          \* "Price"
HChange == {"change"}                        \* "Change"
HVolume == {"volume"}                        \* "Volume"
HBuyer == {"buyer"}                          \* "Buyer"
HSeller == {"seller"}                        \* "Seller"
HMarkers == {"marker", "markers"}            \* "Markers"

\* A body cell is its text, with what float() and int() make of the text once
\* the signs the code strips are gone: decimals in hundredths, None for a
\* ValueError.
Cell(text, f, n) == [text |-> text, float |-> f, int |-> n]

\* the logical field a header is mapped to ("" for none): the if/elif chain
FieldOf(header_lower) ==
    IF "time" \in header_lower /\ "et" \in header_lower THEN "time_et"
    ELSE IF "exchange" \in header_lower \/ "ex" \in header_lower THEN "exchange"
    ELSE IF "price" \in header_lower THEN "price"
    ELSE IF "change" \in header_lower THEN "change"
    ELSE IF "volume" \in header_lower THEN "volume"
    ELSE IF "buyer" \in header_lower THEN "buyer"
    ELSE IF "seller" \in header_lower THEN "seller"
    ELSE IF "marker" \in header_lower \/ "markers" \in header_lower THEN "markers"
    ELSE ""

\* d[k] = v
Put(d, k, v) == [x \in (DOMAIN d) \cup {k} |-> IF x = k THEN v ELSE d[x]]

EmptyDict == [x \in {} |-> 0]

\* for idx, header in enumerate(headers): col_indices[field] = idx
RECURSIVE MapColumns(_, _, _)
MapColumns(headers, idx, col_indices) ==
    IF idx >= Len(headers) THEN col_indices
    ELSE LET field == FieldOf(headers[idx + 1])
         IN MapColumns(headers, idx + 1,
                       IF field = "" THEN col_indices ELSE Put(col_indices, field, idx))

\* 'f' in col_indices and col_indices['f'] < len(cells)
HasCol(col_indices, f, cells) == f \in DOMAIN col_indices /\ col_indices[f] < Len(cells)

\* the trade one row yields, before the test that keeps or drops it
RowTrade(cells, col_indices, symbol_upper, date) ==
    LET cell(f) == cells[col_indices[f] + 1]
        t1 == IF HasCol(col_indices, "time_et", cells)
              THEN Put(EmptyDict, "time_et", cell("time_et").text) ELSE EmptyDict
        t2 == IF HasCol(col_indices, "exchange", cells)
              THEN Put(t1, "exchange", cell("exchange").text) ELSE t1
        t3 == IF HasCol(col_indices, "price", cells)
              THEN Put(t2, "price", cell("price").float) ELSE t2
        t4 == IF HasCol(col_indices, "change", cells)
              THEN Put(t3, "change", cell("change").float) ELSE t3
        t5 == IF HasCol(col_indices, "volume", cells)
              THEN Put(t4, "volume", cell("volume").int) ELSE t4
        t6 == IF HasCol(col_indices, "buyer", cells)
              THEN Put(t5, "buyer", cell("buyer").text) ELSE t5
        t7 == IF HasCol(col_indices, "seller", cells)
              THEN Put(t6, "seller", cell("seller").text) ELSE t6
        t8 == IF HasCol(col_indices, "markers", cells)
              THEN Put(t7, "markers", cell("markers").text) ELSE t7
    IN Put(Put(t8, "symbol", symbol_upper), "date", date)

\* a keep test that wants both
KeepTradeNeedsBoth(trade) ==
    Get(trade, "price", None) # None /\ Get(trade, "volume", None) # None
\* trade.get('price') is not None or trade.get('volume') is not None
KeepTrade(trade) == Get(trade, "price", None) # None \/ Get(trade, "volume", None) # None

\* for row_idx, row in enumerate(rows): the trades list afterwards
RECURSIVE ParseRows(_, _, _, _, _, _)
ParseRows(rows, i, col_indices, symbol_upper, date, trades) ==
    IF i > Len(rows) THEN trades
    ELSE IF Len(rows[i]) < 3
    THEN ParseRows(rows, i + 1, col_indices, symbol_upper, date, trades)
    ELSE LET trade == RowTrade(rows[i], col_indices, symbol_upper, date)
         IN ParseRows(rows, i + 1, col_indices, symbol_upper, date,
                      IF KeepTrade(trade) THEN Append(trades, trade) ELSE trades)

\* symbol.upper()
UpperKeeps(symbol) == symbol
Upper(symbol) ==
    IF symbol = "doct" THEN "DOCT" ELSE IF symbol = "aapl" THEN "AAPL" ELSE symbol

\* the parse of the captured table: the trades, empty when the table has no
\* header row
ParseTable(table, symbol, date) ==
    IF ~table.has_header_row THEN <<>>
    ELSE ParseRows(table.rows, 1, MapColumns(table.headers, 0, EmptyDict),
                   Upper(symbol), date, <<>>)

\* the tables tried
HeadersStd == <<HTimeET, HEx, HPrice, HChange, HVolume, HBuyer, HSeller, HMarkers>>
RowA == <<Cell("09:30:00", None, None), Cell("C", None, None), Cell("$1.50", 150, None),
          Cell("+0.02", 2, None), Cell("1,000", 100000, 1000), Cell("7", 700, 7),
          Cell("9", 900, 9), Cell("", None, None)>>
\* a row whose price cell does not parse
RowB == <<Cell("09:31:00", None, None), Cell("C", None, None), Cell("N/A", None, None),
          Cell("", None, None), Cell("200", 20000, 200), Cell("1", 100, 1),
          Cell("7", 700, 7), Cell("X", None, None)>>
\* a row with neither price nor volume
RowJunk == <<Cell("09:32:00", None, None), Cell("C", None, None), Cell("N/A", None, None),
             Cell("", None, None), Cell("-", None, None), Cell("", None, None),
             Cell("", None, None), Cell("", None, None)>>
\* a row of two cells
RowShort == <<Cell("No trades", None, None), Cell("", None, None)>>
Table(headers, rows) == [has_header_row |-> TRUE, headers |-> headers, rows |-> rows]
TableOne == Table(HeadersStd, <<RowA>>)
TableTwo == Table(HeadersStd, <<RowA, RowShort, RowB, RowJunk>>)
TableJunk == Table(HeadersStd, <<RowJunk>>)
TableNoRows == [has_header_row |-> FALSE, headers |-> <<>>, rows |-> <<>>]
\* "Bid Price", "Ask Price": with the words the Venue-A mapping looks for
HBidPrice == {"bid", "id", "price", "bid price"}
HAskPrice == {"ask", "price", "ask price"}
\* quotes: three price columns; the second row has no readable volume
RowQuote == <<Cell("1.49", 149, None), Cell("1.50", 150, None), Cell("1.51", 151, None),
              Cell("300", 30000, 300)>>
RowQuoteNoVolume == <<Cell("1.48", 148, None), Cell("1.50", 150, None),
                      Cell("1.52", 152, None), Cell("-", None, None)>>
TableBidAsk == Table(<<HBidPrice, HPrice, HAskPrice, HVolume>>, <<RowQuote, RowQuoteNoVolume>>)
\* no price column: the second row has no readable volume either
RowVolume == <<Cell("09:30:00", None, None), Cell("C", None, None), Cell("500", 50000, 500)>>
RowVolumeBad == <<Cell("09:31:00", None, None), Cell("C", None, None), Cell("n/a", None, None)>>
TableNoPrice == Table(<<HTimeET, HEx, HVolume>>, <<RowVolume, RowVolumeBad>>)
Tables == {TableOne, TableTwo, TableJunk, TableNoRows, TableBidAsk, TableNoPrice}

-----------------------------------------------------------------------------
(* Venue A, the depth table: scrape.py, scrape_cse_trades.  A header cell is *)
(* again the set of the words looked for that its lowercased text contains.  *)

HTime == {"time"}                                      \* "Time"
HBidBroker == {"bid", "id", "broker", "bid broker"}    \* "Bid Broker"
HAskBroker == {"ask", "broker", "ask broker"}          \* "Ask Broker"
HBuyerBroker == {"buyer", "broker"}                    \* "Buyer Broker"
HSellerBroker == {"seller", "broker"}                  \* "Seller Broker"
HBidSize == {"bid", "id", "size", "bid size"}          \* "Bid Size"
HAskSize == {"ask", "size", "ask size"}                \* "Ask Size"
HTradeId == {"trade", "id"}                            \* "Trade ID"
HOther == {}                                           \* "Orders"

\* one header of the loop at its index: col_indices afterwards
MapHeaderCse(header_clean, idx, col_indices) ==
    IF "time" \in header_clean \/ "timestamp" \in header_clean
    THEN Put(col_indices, "timestamp", idx)
    ELSE IF "bid broker" \in header_clean THEN Put(col_indices, "buyer", idx)
    ELSE IF "ask broker" \in header_clean THEN Put(col_indices, "seller", idx)
    ELSE IF "buyer" \in header_clean /\ "broker" \in header_clean
    THEN Put(col_indices, "buyer", idx)
    ELSE IF "seller" \in header_clean /\ "broker" \in header_clean
    THEN Put(col_indices, "seller", idx)
    ELSE IF "price" \in header_clean
    THEN IF "bid price" \in header_clean
         THEN LET c == Put(col_indices, "bid_price", idx)
              IN IF "price" \notin DOMAIN c THEN Put(c, "price", idx) ELSE c
         ELSE IF "ask price" \in header_clean
         THEN LET c == Put(col_indices, "ask_price", idx)
              IN IF "price" \notin DOMAIN c THEN Put(c, "price", idx) ELSE c
         ELSE IF "bid" \notin header_clean /\ "ask" \notin header_clean
         THEN Put(col_indices, "price", idx)
         ELSE col_indices
    ELSE IF "volume" \in header_clean \/ "size" \in header_clean
    THEN IF "bid size" \in header_clean
         THEN LET c == Put(col_indices, "bid_size", idx)
              IN IF "volume" \notin DOMAIN c THEN Put(c, "volume", idx) ELSE c
         ELSE IF "ask size" \in header_clean
         THEN LET c == Put(col_indices, "ask_size", idx)
              IN IF "volume" \notin DOMAIN c THEN Put(c, "volume", idx) ELSE c
         ELSE IF "bid" \notin header_clean /\ "ask" \notin header_clean
         THEN Put(col_indices, "volume", idx)
         ELSE col_indices
    ELSE IF "trade" \in header_clean /\ "id" \in header_clean
    THEN Put(col_indices, "trade_id", idx)
    ELSE col_indices

\* a mapping in which a field that has a column keeps it
MapHeaderCseFirstWins(header_clean, idx, col_indices) ==
    LET c == MapHeaderCse(header_clean, idx, col_indices)
    IN [f \in DOMAIN c |-> IF f \in DOMAIN col_indices THEN col_indices[f] ELSE c[f]]

\* for idx, header in enumerate(headers)
RECURSIVE MapColumnsCseFirstWins(_, _, _)
MapColumnsCseFirstWins(headers, idx, col_indices) ==
    IF idx >= Len(headers) THEN col_indices
    ELSE MapColumnsCseFirstWins(headers, idx + 1,
                                MapHeaderCseFirstWins(headers[idx + 1], idx, col_indices))
RECURSIVE MapColumnsCse(_, _, _)
MapColumnsCse(headers, idx, col_indices) ==
    IF idx >= Len(headers) THEN col_indices
    ELSE MapColumnsCse(headers, idx + 1, MapHeaderCse(headers[idx + 1], idx, col_indices))

\* 'bid' in ' '.join(headers_lower) and 'ask' in ' '.join(headers_lower)
is_depth_display(headers) ==
    /\ \E i \in DOMAIN headers : "bid" \in headers[i]
    /\ \E i \in DOMAIN headers : "ask" \in headers[i]

\* the default order, for a header row in which no column was identified
DefaultColumns == [timestamp |-> 0, price |-> 1, volume |-> 2, buyer |-> 3, seller |-> 4]

\* datetime.now().strftime("%Y-%m-%d"): year, month and day with dashes
StrftimeIso(dt) == <<dt.y, "-", dt.m, "-", dt.d>>

\* not x, for a float or None
NotPrice(price) == price = None \/ price = 0

\* one data row of at least three cells: whether it is skipped, and the trade
RowCse(cells, col_indices, depth, current_date) ==
    LET cell(f) == cells[col_indices[f] + 1]
        price == IF HasCol(col_indices, "price", cells) THEN cell("price").float ELSE None
        volume == IF HasCol(col_indices, "volume", cells) THEN cell("volume").int ELSE None
        buyer_broker == IF HasCol(col_indices, "buyer", cells) THEN cell("buyer").text ELSE ""
        seller_broker == IF HasCol(col_indices, "seller", cells) THEN cell("seller").text ELSE ""
        trade_id == IF HasCol(col_indices, "trade_id", cells) THEN cell("trade_id").text ELSE ""
        t0 == [timestamp |-> current_date, price |-> price, volume |-> volume,
               buyer_broker |-> buyer_broker, seller_broker |-> seller_broker]
        t1 == IF trade_id # "" THEN Put(t0, "trade_id", trade_id) ELSE t0
        t2 == IF depth /\ HasCol(col_indices, "bid_price", cells)
                 /\ cell("bid_price").float # None
              THEN Put(t1, "bid_price", cell("bid_price").float) ELSE t1
        t3 == IF depth /\ HasCol(col_indices, "ask_price", cells)
                 /\ cell("ask_price").float # None
              THEN Put(t2, "ask_price", cell("ask_price").float) ELSE t2
        t4 == IF depth /\ HasCol(col_indices, "bid_size", cells)
                 /\ cell("bid_size").int # None
              THEN Put(t3, "bid_size", cell("bid_size").int) ELSE t3
        t5 == IF depth /\ HasCol(col_indices, "ask_size", cells)
                 /\ cell("ask_size").int # None
              THEN Put(t4, "ask_size", cell("ask_size").int) ELSE t4
    IN [skip |-> buyer_broker = "" /\ seller_broker = "" /\ NotPrice(price),
        trade |-> t5]

\* the fields whose cell a row parse reads
FieldsReadCse(depth) ==
    {"timestamp", "price", "volume", "buyer", "seller", "trade_id"}
    \cup (IF depth THEN {"bid_price", "ask_price", "bid_size", "ask_size"} ELSE {})

\* a row parse that reads every mapped column
CellAccessesCseUnguarded(cells, col_indices, depth) ==
    {col_indices[f] : f \in FieldsReadCse(depth) \cap DOMAIN col_indices}

\* the indices at which one row's parse reads cells[...]: each read stands
\* behind "f in col_indices and col_indices[f] < len(cells)"
CellAccessesCse(cells, col_indices, depth) ==
    {col_indices[f] : f \in {g \in FieldsReadCse(depth) : HasCol(col_indices, g, cells)}}

\* for row_idx, row in enumerate(rows): the trades list afterwards
RECURSIVE ParseRowsCse(_, _, _, _, _, _)
ParseRowsCse(rows, i, col_indices, depth, current_date, trades) ==
    IF i > Len(rows) THEN trades
    ELSE IF Len(rows[i]) < 3
    THEN ParseRowsCse(rows, i + 1, col_indices, depth, current_date, trades)
    ELSE LET r == RowCse(rows[i], col_indices, depth, current_date)
         IN ParseRowsCse(rows, i + 1, col_indices, depth, current_date,
                         IF r.skip THEN trades ELSE Append(trades, r.trade))

\* the columns the rows are read with
ColumnsCse(headers) ==
    LET col_indices == MapColumnsCse(headers, 0, EmptyDict)
    IN IF col_indices = EmptyDict THEN DefaultColumns ELSE col_indices

\* the parse of the captured table
ParseTableCse(table, current_date) ==
    IF ~table.has_header_row THEN <<>>
    ELSE ParseRowsCse(table.rows, 1, ColumnsCse(table.headers),
                      is_depth_display(table.headers), current_date, <<>>)

\* the reads of the row loop, as <<row, index>>: rows under three cells are skipped
TableAccessesCse(table) ==
    IF ~table.has_header_row THEN {}
    ELSE UNION {{<<i, idx>> : idx \in CellAccessesCse(table.rows[i], ColumnsCse(table.headers),
                                                        is_depth_display(table.headers))} :
                  i \in {j \in DOMAIN table.rows : Len(table.rows[j]) >= 3}}

\* a scraper whose handlers let the exception go to the caller
scrape_cse_trades_raises_on_error(cpage) == cpage.nav # "ok" \/ cpage.debug_file # "ok"

\* whether scrape_cse_trades raises: the whole body is in one try, and both
\* handlers (PlaywrightTimeoutError, Exception) print and fall through to
\* return trades
scrape_cse_trades_raises(cpage) == FALSE

\* scrape_cse_trades(symbol): the list returned.  Every exception ends in one
\* of the two handlers, which print; then return trades.
scrape_cse_trades(symbol, today_str, cpage) ==
    IF cpage.nav # "ok" THEN <<>>
    ELSE IF cpage.debug_file # "ok" THEN <<>>
    ELSE IF ~cpage.table_found THEN <<>>
    ELSE ParseTableCse(cpage.table, StrftimeIso(strptime(today_str)))

\* the listing pages tried
HeadersDepth == <<HBidBroker, HBidSize, HBidPrice, HAskPrice, HAskSize, HAskBroker>>
HeadersSales == <<HTime, HPrice, HVolume, HBuyerBroker, HSellerBroker, HTradeId>>
HeadersUnknown == <<HOther, HOther, HOther>>
RowBoth == <<Cell("085", 8500, 85), Cell("100", 10000, 100), Cell("1.50", 150, None),
             Cell("1.51", 151, None), Cell("200", 20000, 200), Cell("080", 8000, 80)>>
RowPriceOnly == <<Cell("", None, None), Cell("", None, None), Cell("$1.50", 150, None),
                  Cell("", None, None), Cell("", None, None), Cell("", None, None)>>
RowZeroPrice == <<Cell("", None, None), Cell("500", 50000, 500), Cell("0.00", 0, None),
                  Cell("", None, None), Cell("", None, None), Cell("", None, None)>>
RowNoData == <<Cell("", None, None), Cell("500", 50000, 500), Cell("N/A", None, None),
               Cell("1.51", 151, None), Cell("200", 20000, 200), Cell("", None, None)>>
RowBuyerOnly == <<Cell("085", 8500, 85), Cell("", None, None), Cell("N/A", None, None),
                  Cell("", None, None), Cell("", None, None), Cell("", None, None)>>
\* a row of three cells under a header row of six
RowThree == <<Cell("085", 8500, 85), Cell("100", 10000, 100), Cell("1.50", 150, None)>>
RowsCse == {RowBoth, RowPriceOnly, RowZeroPrice, RowNoData, RowBuyerOnly, RowShort, RowThree}
CsePage(nav, debug_file, table_found, table) ==
    [nav |-> nav, debug_file |-> debug_file, table_found |-> table_found, table |-> table]
CseTables ==
    {Table(h, rows) : h \in {HeadersDepth, HeadersSales, HeadersUnknown},
                      rows \in SeqsUpTo(RowsCse, 2)}
    \cup {TableNoRows}
CsePages ==
    {CsePage("ok", "ok", TRUE, t) : t \in CseTables}
    \cup {CsePage("timeout", "ok", TRUE, TableNoRows), CsePage("error", "ok", TRUE, TableNoRows),
          CsePage("ok", "fails", TRUE, TableNoRows), CsePage("ok", "ok", FALSE, TableNoRows)}

-----------------------------------------------------------------------------
(* The depth files: scrape.py save_to_csv and main (source cse),            *)
(* scrape_date_range.py scrape_cse_depth_chart.  A CSV file is the list of  *)
(* its lines, a line the list of its cells.                                 *)

CsvAbsent == [kind |-> "absent", lines |-> <<>>]
CsvFile(lines) == [kind |-> "file", lines |-> lines]

\* the keys of all trades
KeysOfAll(trades) == UNION {DOMAIN trades[i] : i \in DOMAIN trades}

\* preferred_order, then sorted(...) of the other keys a Venue-A record can have
preferred_order == <<"timestamp", "price", "volume", "buyer_broker", "seller_broker", "trade_id">>
SortedOthers == <<"ask_price", "ask_size", "bid_price", "bid_size">>
Fieldnames(trades) ==
    LET Present(f) == f \in KeysOfAll(trades)
    IN SelectSeq(preferred_order, Present) \o SelectSeq(SortedOthers, Present)

\* writer.writeheader() and writer.writerows(trades): a missing key gives ""
HeaderLine(fieldnames) == [header |-> TRUE, cells |-> fieldnames]
RowLine(fieldnames, trade) ==
    [header |-> FALSE, cells |-> [k \in DOMAIN fieldnames |-> Get(trade, fieldnames[k], "")]]
RowLines(fieldnames, trades) == [i \in DOMAIN trades |-> RowLine(fieldnames, trades[i])]

\* a CSV writer that heads every batch
save_to_csv_heads_every_batch(f, trades, append, io) ==
    IF trades = <<>> \/ io # "ok" THEN f
    ELSE CsvFile((IF f.kind # "absent" /\ append THEN f.lines ELSE <<>>)
                 \o <<HeaderLine(Fieldnames(trades))>>
                 \o RowLines(Fieldnames(trades), trades))

\* save_to_csv(trades, filename, append): the file afterwards
save_to_csv(f, trades, append, io) ==
    IF trades = <<>> THEN f
    ELSE LET file_exists == f.kind # "absent" /\ append
             write_header == ~file_exists
             fieldnames == Fieldnames(trades)
             before == IF append /\ file_exists THEN f.lines ELSE <<>>    \* mode 'a' or 'w'
         IN IF io # "ok" THEN f     \* open() fails: printed
            ELSE CsvFile(before
                         \o (IF write_header THEN <<HeaderLine(fieldnames)>> ELSE <<>>)
                         \o RowLines(fieldnames, trades))

\* the two depth files after the Venue-A rows are stored
SaveDepth(trades, append, json, csv, jio, cio) ==
    IF trades = <<>> THEN [json |-> json, csv |-> csv]     \* if not trades: return
    ELSE [json |-> save_to_json(json, trades, append, jio),
          csv |-> save_to_csv(csv, trades, append, cio)]

\* scrape_cse_depth_chart(symbol) of the range driver: append=False
scrape_cse_depth_chart(symbol, today_str, cpage, json, csv, jio, cio) ==
    SaveDepth(scrape_cse_trades(symbol, today_str, cpage), FALSE, json, csv, jio, cio)

\* main() of scrape.py with --source cse: append=True
main_cse(symbol, today_str, cpage, json, csv, jio, cio) ==
    SaveDepth(scrape_cse_trades(symbol, today_str, cpage), TRUE, json, csv, jio, cio)

-----------------------------------------------------------------------------
(* Venue B, one day's scrape: scrape.py, scrape_stockwatch_trades.  The      *)
(* result is what the caller gets, the returned list or the exception, with  *)
(* the steps the scraper went through.                                       *)

\* the portal during one day's scrape
Page(login, home, search, more, date_input, submit, table_wait, table_after_wait, no_data_text, table_at_capture, table) ==
    [login |-> login, home |-> home, search |-> search, more |-> more,
     date_input |-> date_input, submit |-> submit, table_wait |-> table_wait,
     table_after_wait |-> table_after_wait, no_data_text |-> no_data_text,
     table_at_capture |-> table_at_capture, table |-> table]

Returned(trades, steps) ==
    [raised |-> FALSE, exc |-> "", msg |-> "", trades |-> trades, steps |-> steps]
Raised(exc, msg, steps) ==
    [raised |-> TRUE, exc |-> exc, msg |-> msg, trades |-> <<>>, steps |-> steps]

\* BeautifulSoup parse of the captured table and the row loop
ScrapeParse(page, symbol, date, steps) ==
    Returned(ParseTable(page.table, symbol, date), Append(steps, "parse"))

\* table_html = page.query_selector(table_id): return trades when it is gone
ScrapeCapture(page, symbol, date, steps) ==
    IF ~page.table_at_capture
    THEN Returned(<<>>, steps \o <<"capture", "close_browser">>)
    ELSE ScrapeParse(page, symbol, date, steps \o <<"capture", "close_browser">>)

\* a table wait whose timeout goes to the caller
ScrapeWaitTableTimeoutRaises(page, symbol, date, steps) ==
    IF page.table_wait = "visible"
    THEN IF page.table_after_wait
         THEN ScrapeCapture(page, symbol, date, Append(steps, "wait_table"))
         ELSE Raised("ValueError", "Table element not found after waiting",
                     Append(steps, "wait_table"))
    ELSE IF page.no_data_text
         THEN Returned(<<>>, steps \o <<"wait_table", "close_browser">>)
         ELSE Raised("PlaywrightTimeoutError", "Timeout", Append(steps, "wait_table"))

\* page.wait_for_selector(table_id, state="visible", timeout=30000)
ScrapeWaitTable(page, symbol, date, steps) ==
    IF page.table_wait = "visible"
    THEN IF page.table_after_wait
         THEN ScrapeCapture(page, symbol, date, Append(steps, "wait_table"))
         ELSE Raised("ValueError", "Table element not found after waiting",
                     Append(steps, "wait_table"))
    ELSE \* except PlaywrightTimeoutError
         IF page.no_data_text
         THEN Returned(<<>>, steps \o <<"wait_table", "close_browser">>)
         ELSE ScrapeCapture(page, symbol, date, Append(steps, "wait_table"))

ScrapeSubmit(page, symbol, date, steps) ==
    IF page.submit # "ok"
    THEN Raised("ValueError", "Failed to submit form", Append(steps, "submit"))
    ELSE ScrapeWaitTable(page, symbol, date, Append(steps, "submit"))

ScrapeFillDate(page, symbol, date, steps) ==
    IF page.date_input # "ok"
    THEN Raised("ValueError", "Failed to set date", Append(steps, "fill_date"))
    ELSE ScrapeSubmit(page, symbol, date, Append(steps, "fill_date"))

\* a scraper that goes on to the date without the "More trades" link
ScrapeMoreTradesSkips(page, symbol, date, steps) ==
    IF page.more # "ok"
    THEN ScrapeFillDate(page, symbol, date, steps)
    ELSE ScrapeFillDate(page, symbol, date, Append(steps, "more_trades"))

\* a:has-text("More trades") ...: click, or ValueError out of the block
ScrapeMoreTrades(page, symbol, date, steps) ==
    IF page.more # "ok"
    THEN Raised("ValueError", "Failed to navigate to trades page",
                Append(steps, "more_trades"))
    ELSE ScrapeFillDate(page, symbol, date, Append(steps, "more_trades"))

\* any exception of the search block, a timeout of the click included, leaves
\* as a ValueError
ScrapeSearch(page, symbol, date, steps) ==
    IF page.search # "ok"
    THEN Raised("ValueError", "Failed to search for symbol", Append(steps, "search"))
    ELSE ScrapeMoreTrades(page, symbol, date, Append(steps, "search"))

\* except PlaywrightTimeoutError: print(...), then return trades
OnTimeoutRaises(steps) == Raised("TimeoutError", "Timeout 60000ms exceeded", steps)
OnTimeout(steps) == Returned(<<>>, steps)

\* except Exception: print, traceback, then return trades
OnException(steps) == Returned(<<>>, steps)

\* page.goto(homepage_url, wait_until="domcontentloaded", timeout=60000)
ScrapeHome(page, symbol, date, steps) ==
    IF page.home = "timeout" THEN OnTimeout(Append(steps, "goto_home"))
    ELSE IF page.home # "ok" THEN OnException(Append(steps, "goto_home"))
    ELSE ScrapeSearch(page, symbol, date, Append(steps, "goto_home"))

\* login_success = login_stockwatch(...); if not login_success: warning only
ScrapeLoginStops(page, symbol, date, steps) ==
    IF ~login_stockwatch(page.login)
    THEN Raised("LoginFailed", "LoginFailed", Append(steps, "login"))
    ELSE ScrapeHome(page, symbol, date, Append(steps, "login"))
ScrapeLogin(page, symbol, date, steps) ==
    ScrapeHome(page, symbol, date, Append(steps, "login"))

placeholder_values == {"your_username_here", "your_password_here", ""}

\* a scraper that opens the browser first and checks the credentials after
scrape_stockwatch_trades_browser_first(symbol, date_arg, today_str, auth_env, page) ==
    LET date == IF date_arg = None THEN today_str ELSE date_arg
    IN IF ~strptime(date).ok
       THEN Raised("ValueError", "Invalid date format", <<"validate_date">>)
       ELSE LET auth_data == load_stockwatch_auth(auth_env)
                username == Strip(auth_data.username)
                password == Strip(auth_data.password)
            IN IF auth_data.raised
               THEN Raised(auth_data.exc, auth_data.msg, <<"validate_date", "load_auth">>)
               ELSE IF username \in placeholder_values \/ password \in placeholder_values
               THEN Raised("ValueError", "Placeholder credentials found in secrets.json",
                           <<"validate_date", "load_auth", "launch_browser">>)
               ELSE ScrapeLogin(page, symbol, date,
                                <<"validate_date", "load_auth", "launch_browser">>)

\* scrape_stockwatch_trades(symbol, date): date None stands for today
scrape_stockwatch_trades(symbol, date_arg, today_str, auth_env, page) ==
    LET date == IF date_arg = None THEN today_str ELSE date_arg
    IN IF ~strptime(date).ok
       THEN Raised("ValueError", "Invalid date format", <<"validate_date">>)
       ELSE LET auth_data == load_stockwatch_auth(auth_env)
                username == Strip(auth_data.username)
                password == Strip(auth_data.password)
            IN IF auth_data.raised
               THEN \* FileNotFoundError, or a ValueError (JSONDecodeError is one)
                    Raised(auth_data.exc, auth_data.msg, <<"validate_date", "load_auth">>)
               ELSE IF username \in placeholder_values \/ password \in placeholder_values
               THEN Raised("ValueError", "Placeholder credentials found in secrets.json",
                           <<"validate_date", "load_auth">>)
               ELSE ScrapeLogin(page, symbol, date,
                                <<"validate_date", "load_auth", "launch_browser">>)

\* the portals tried: one fault at a time after the login
PageGood(login, table) ==
    Page(login, "ok", "ok", "ok", "ok", "ok", "visible", TRUE, FALSE, TRUE, table)
PageFaults(login) ==
    {PageGood(login, t) : t \in Tables}
    \cup {[PageGood(login, TableOne) EXCEPT !.home = h] : h \in {"timeout", "error"}}
    \cup {[PageGood(login, TableOne) EXCEPT !.search = f] : f \in {"missing", "timeout"}}
    \cup {[PageGood(login, TableOne) EXCEPT !.more = "missing"],
          [PageGood(login, TableOne) EXCEPT !.date_input = "missing"],
          [PageGood(login, TableOne) EXCEPT !.submit = "missing"],
          [PageGood(login, TableOne) EXCEPT !.table_after_wait = FALSE],
          [PageGood(login, TableOne) EXCEPT !.table_wait = "timeout"],
          [PageGood(login, TableOne) EXCEPT !.table_wait = "timeout",
                                            !.no_data_text = TRUE],
          [PageGood(login, TableOne) EXCEPT !.table_wait = "timeout",
                                            !.table_at_capture = FALSE],
          [PageGood(login, TableOne) EXCEPT !.table_at_capture = FALSE]}
Pages == UNION {PageFaults(login) : login \in LoginPages}

-----------------------------------------------------------------------------
(* One day's scrape, called once *)

DayDates == {None, 20241115, 20241332}

DayInit ==
    /\ StoreIdle /\ DatesIdle /\ CallIdle /\ RangeIdle
    /\ dayInput \in [called : {TRUE}, symbol : {"doct", "DOCT", "aapl"}, date : DayDates,
                     today : {20241116}, auth_env : AuthEnvs, page : Pages]
    /\ dayResult = [called |-> FALSE]

ScrapeStockwatchTrades ==
    /\ ~dayResult.called
    /\ dayResult' = [called |-> TRUE,
                     result |-> scrape_stockwatch_trades(dayInput.symbol, dayInput.date,
                                                         dayInput.today, dayInput.auth_env,
                                                         dayInput.page)]
    /\ UNCHANGED <<dayInput, storeVars, dateVars, callVars, rangeVars>>

DayNext == ScrapeStockwatchTrades

SpecDay == DayInit /\ [][DayNext]_vars

-----------------------------------------------------------------------------
(* The range run: main() of scrape_date_range.py with scrape_date_range()    *)

MaxDays == 3      \* largest --days of a range run

Todays == {20250101, 20240301}

Yesterday(t) == strftime(AddDays(strptime(t), -1))

\* timedelta(days=args.days - 1)
DaysBackOffByOne(days) == days
DaysBack(days) == days - 1

\* for idx, date_str in enumerate(dates, 1)
DateAtNewestFirst(dates_list, i) == dates_list[Len(dates_list) + 1 - i]
DateAt(dates_list, i) == dates_list[i]

\* total_trades += len(trades)
TallyCountsDays(total, trades) == total + 1
Tally(total, trades) == total + Len(trades)

\* the portals a day of the range run may meet
RangePages ==
    {PageGood(LoginOk, TableOne), PageGood(LoginOk, TableTwo),
     PageGood(LoginOk, TableJunk),
     [PageGood(LoginOk, TableOne) EXCEPT !.home = "timeout"],
     [PageGood(LoginOk, TableOne) EXCEPT !.search = "timeout"]}

RangeInit ==
    /\ DatesIdle /\ DayIdle /\ CallIdle
    /\ dataset = "trades"
    /\ file \in {Absent, Invalid, Arr(<<TradeX>>), NonArray}
    /\ old = file /\ lastOp = NoOp /\ parts = [live |-> FALSE, lists |-> <<>>]
    /\ today \in Todays
    /\ args \in [symbol : {"doct"}, days : 0..MaxDays,
                 start_date : {None, Yesterday(today), 20241332},
                 end_date : {None, today, Yesterday(today)}]
    /\ environ \in {AuthGood, AuthMissing}
    /\ pc = "main"
    /\ range_dates = <<>> /\ day_idx = 0 /\ day_trades = <<>>
    /\ successful_dates = <<>> /\ failed_dates = <<>> /\ total_trades = 0
    /\ summary = [returned |-> FALSE] /\ file_at_start = file /\ log = <<>>

\* main(): the date range from the command line, then the first lines of
\* scrape_date_range()
RangeMain ==
    /\ pc = "main"
    /\ LET end_date_str == IF args.end_date # None THEN args.end_date ELSE today
           start_date_str ==
               IF args.start_date # None THEN args.start_date
               ELSE strftime(AddDays(strptime(today), -DaysBack(args.days)))
           r == generate_date_range(start_date_str, end_date_str)
       IN IF ~strptime(start_date_str).ok \/ ~strptime(end_date_str).ok
          THEN pc' = "exit" /\ UNCHANGED <<range_dates, day_idx>>      \* sys.exit(1)
          ELSE IF r.raised
          THEN pc' = "crashed" /\ UNCHANGED <<range_dates, day_idx>>   \* ValueError
          ELSE pc' = "scrape" /\ range_dates' = r.dates /\ day_idx' = 1
    /\ UNCHANGED <<today, args, environ, day_trades, successful_dates, failed_dates,
                   total_trades, summary, file_at_start, log,
                   storeVars, dateVars, dayVars, callVars>>

\* where the loop stands after the day at day_idx
AfterDay == IF day_idx >= Len(range_dates) THEN "return" ELSE "scrape"

\* one iteration of the loop up to the test of trades: the scrape, with the
\* except branch and the branch of an empty list
RangeScrapeDay ==
    /\ pc = "scrape"
    /\ \E page \in RangePages :
          LET date_str == DateAt(range_dates, day_idx)
              r == scrape_stockwatch_trades(Upper(args.symbol), date_str, today,
                                            environ, page)
              entry == [date |-> date_str, page |-> page, raised |-> r.raised,
                        exc |-> r.exc, msg |-> r.msg, trades |-> r.trades,
                        steps |-> r.steps, io |-> "none"]
          IN /\ log' = Append(log, entry)
             /\ IF r.raised
                THEN /\ failed_dates' = Append(failed_dates, <<date_str, r.msg>>)
                     /\ pc' = AfterDay /\ day_idx' = day_idx + 1
                     /\ UNCHANGED <<successful_dates, day_trades>>
                ELSE IF r.trades # <<>>
                THEN /\ day_trades' = r.trades
                     /\ pc' = "save"
                     /\ UNCHANGED <<successful_dates, failed_dates, day_idx>>
                ELSE /\ successful_dates' = Append(successful_dates, date_str)
                     /\ pc' = AfterDay /\ day_idx' = day_idx + 1
                     /\ UNCHANGED <<failed_dates, day_trades>>
    /\ UNCHANGED <<today, args, environ, range_dates, total_trades, summary,
                   file_at_start, storeVars, dateVars, dayVars, callVars>>

\* the rest of the iteration of a day with trades: the save and the counts,
\* or the except branch should the save raise
RangeSaveDay ==
    /\ pc = "save"
    /\ \E io \in IOOutcomes :
          /\ save_stockwatch_trades_writes(file) \/ io = "ok"
          /\ file' = save_stockwatch_trades(file, day_trades, io)
          /\ log' = [log EXCEPT ![Len(log)].io = io]
          /\ IF save_stockwatch_trades_raises(file, io)
             THEN /\ failed_dates' =
                        Append(failed_dates, <<DateAt(range_dates, day_idx), "save failed">>)
                  /\ UNCHANGED <<total_trades, successful_dates>>
             ELSE /\ total_trades' = Tally(total_trades, day_trades)
                  /\ successful_dates' =
                        Append(successful_dates, DateAt(range_dates, day_idx))
                  /\ UNCHANGED failed_dates
    /\ day_trades' = <<>>
    /\ pc' = AfterDay /\ day_idx' = day_idx + 1
    /\ UNCHANGED <<today, args, environ, range_dates, summary,
                   file_at_start, dataset, old, lastOp, parts, dateVars, dayVars, callVars>>

\* return {...}
RangeReturn ==
    /\ pc = "return"
    /\ summary' = [returned |-> TRUE, total_dates |-> Len(range_dates),
                   successful_dates |-> successful_dates,
                   failed_dates |-> failed_dates, total_trades |-> total_trades]
    /\ pc' = "done"
    /\ UNCHANGED <<today, args, environ, range_dates, day_idx, day_trades,
                   successful_dates, failed_dates, total_trades, file_at_start, log,
                   storeVars, dateVars, dayVars, callVars>>

RangeNext == RangeMain \/ RangeScrapeDay \/ RangeSaveDay \/ RangeReturn

SpecRange == RangeInit /\ [][RangeNext]_vars

-----------------------------------------------------------------------------
(* Claims about the range run *)

SeqElems(s) == {s[i] : i \in DOMAIN s}

\* the days whose iteration is over: all the logged ones, but the last while
\* its trades wait to be saved
DaysOver == IF pc = "save" THEN Len(log) - 1 ELSE Len(log)

Increasing(s) == \A i \in 1..(Len(s) - 1) : s[i] < s[i + 1]

FailedDateList == [i \in DOMAIN failed_dates |-> failed_dates[i][1]]

\* the trade lists of the first n logged days, one after the other
RECURSIVE TradesOfDays(_)
TradesOfDays(n) == IF n = 0 THEN <<>> ELSE TradesOfDays(n - 1) \o log[n].trades

RECURSIVE CountOfDays(_)
CountOfDays(n) == IF n = 0 THEN 0 ELSE CountOfDays(n - 1) + Len(log[n].trades)

DaysRequest == args.start_date = None /\ (args.end_date = None \/ args.end_date = today)

\* C6: in a range run with no --start-date whose end date is today, --days K
\* with K >= 1 makes the run iterate over exactly K dates, consecutive calendar
\* days the last of which is today, and the days are processed in that order,
\* all of them by the end of the loop.  With K = 0 the start follows the end,
\* generate_date_range raises and no date is processed.
C6_DaysRequestCoversLastKDays ==
    (pc # "main" /\ DaysRequest)
    => IF args.days >= 1
       THEN /\ Len(range_dates) = args.days
            /\ range_dates[args.days] = today
            /\ Consecutive(range_dates)
            /\ Len(log) <= args.days
            /\ \A i \in 1..Len(log) : log[i].date = range_dates[i]
            /\ pc \in {"return", "done"} => Len(log) = args.days
       ELSE pc = "crashed" /\ log = <<>>

C6_Witness ==
    /\ pc = "done" /\ DaysRequest /\ today = 20250101
    /\ args.days = MaxDays /\ Len(log) = MaxDays
    /\ log[1].date < 20250000

\* C7: the summary a range run returns counts the dates of the range, lists
\* every date in exactly one of successful_dates and failed_dates: the days
\* whose scrape returned (with trades or without) in the first, the days whose
\* scrape raised in the second with the message of the exception, both lists
\* oldest first; total_trades is the number of trades the scrapes returned; and
\* every date of the range has been processed, whatever the earlier days met.
C7_SummaryMatchesOutcomes ==
    summary.returned
    => /\ summary.total_dates = Len(range_dates)
       /\ Len(log) = Len(range_dates)
       /\ \A i \in 1..Len(log) :
             /\ log[i].date = range_dates[i]
             /\ IF log[i].raised
                THEN /\ <<log[i].date, log[i].msg>> \in SeqElems(summary.failed_dates)
                     /\ log[i].date \notin SeqElems(summary.successful_dates)
                ELSE /\ log[i].date \in SeqElems(summary.successful_dates)
                     /\ \A f \in SeqElems(summary.failed_dates) : f[1] # log[i].date
       /\ Len(summary.successful_dates) + Len(summary.failed_dates) = Len(range_dates)
       /\ Increasing(summary.successful_dates)
       /\ Increasing([i \in DOMAIN summary.failed_dates |-> summary.failed_dates[i][1]])
       /\ summary.total_trades = CountOfDays(Len(log))

C7_Witness ==
    /\ summary.returned /\ Len(log) = 3
    /\ log[1].raised
    /\ ~log[2].raised /\ Len(log[2].trades) = 2
    /\ ~log[3].raised /\ log[3].trades = <<>>
    /\ summary.total_trades = 2

\* every write of the run so far went through
WritesComplete == \A i \in 1..Len(log) : log[i].io \in {"none", "ok"}

HomeTimedOut(e) == "goto_home" \in SeqElems(e.steps) /\ e.page.home = "timeout"

\* the day's scrape got to the symbol search and the click timed out
SearchTimedOut(e) == "search" \in SeqElems(e.steps) /\ e.page.search = "timeout"

\* C9 as stated: a day whose navigation timed out is in failed_dates with a
\* reason and not in successful_dates.
C9_Original ==
    \A i \in 1..DaysOver :
        HomeTimedOut(log[i])
        => /\ log[i].raised
           /\ log[i].date \in SeqElems(FailedDateList)
           /\ log[i].date \notin SeqElems(successful_dates)

\* C9: when the navigation to the portal home times out, the scraper catches
\* the timeout and returns the empty list: the range driver lists the date in
\* successful_dates, not in failed_dates, adds nothing to total_trades or to
\* the file, and goes on.  When the click of the symbol search times out, the
\* scraper raises a ValueError: the date is in failed_dates with the message
\* and not in successful_dates.
C9_TimeoutOutcome ==
    \A i \in 1..DaysOver :
        /\ HomeTimedOut(log[i])
           => /\ ~log[i].raised /\ log[i].trades = <<>> /\ log[i].io = "none"
              /\ log[i].date \in SeqElems(successful_dates)
              /\ log[i].date \notin SeqElems(FailedDateList)
              /\ pc \in {"scrape", "save", "return", "done"}
        /\ SearchTimedOut(log[i])
           => /\ log[i].raised /\ log[i].exc = "ValueError"
              /\ <<log[i].date, log[i].msg>> \in SeqElems(failed_dates)
              /\ log[i].date \notin SeqElems(successful_dates)

C9_Witness ==
    /\ Len(log) >= 2 /\ HomeTimedOut(log[1])
    /\ log[1].date \in SeqElems(successful_dates)
    /\ ~log[2].raised /\ log[2].trades # <<>> /\ pc = "scrape"

-----------------------------------------------------------------------------
(* Claims about one day's scrape *)

\* the login form was submitted and the content then holds a forbidden word
ForbiddenShown(lp) ==
    lp.nav = "ok" /\ lp.form = "ok" /\ lp.content \cap error_indicators # {}

\* the call got to the login with a portal that shows a forbidden word
LoginRefused ==
    /\ dayResult.called
    /\ "login" \in SeqElems(dayResult.result.steps)
    /\ ForbiddenShown(dayInput.page.login)

\* C10 as stated: the day ends with LoginFailed, without home page or search.
C10_Original ==
    LoginRefused
    => /\ dayResult.result.raised /\ dayResult.result.exc = "LoginFailed"
       /\ "goto_home" \notin SeqElems(dayResult.result.steps)
       /\ "search" \notin SeqElems(dayResult.result.steps)

\* C10: when the content after the login click holds a forbidden word,
\* login_stockwatch returns False and the scraper goes on all the same: the
\* home page is loaded next, the symbol search follows when the home page
\* loads, no LoginFailed leaves the scraper, and the caller gets what it would
\* get from the same portal with a login that went through.
C10_LoginFailureContinues ==
    LoginRefused
    => LET r == dayResult.result
           k == CHOOSE j \in DOMAIN r.steps : r.steps[j] = "login"
           inp == dayInput
       IN /\ ~login_stockwatch(inp.page.login)
          /\ r.exc # "LoginFailed"
          /\ Len(r.steps) > k /\ r.steps[k + 1] = "goto_home"
          /\ inp.page.home = "ok" => "search" \in SeqElems(r.steps)
          /\ r = scrape_stockwatch_trades(inp.symbol, inp.date, inp.today, inp.auth_env,
                                          [inp.page EXCEPT !.login = LoginOk])

C10_Witness ==
    /\ LoginRefused
    /\ dayInput.page.login = LoginInvalid
    /\ ~dayResult.result.raised /\ Len(dayResult.result.trades) = 2

-----------------------------------------------------------------------------
(* Single calls of the functions of scrape.py *)

\* what the page holds after the click: at most one of the words looked for,
\* or two of them, or other words only
LoginContents ==
    {{}, {"welcome"}, {"invalid", "welcome"}, {"error", "failed"}}
    \cup {{w} : w \in error_indicators}

LoginCalls ==
    {[op |-> "login_stockwatch",
      lp |-> LoginPage(nav, form, content, url_login, url_domain)] :
        nav \in {"ok", "timeout"}, form \in {"ok", "missing"},
        content \in LoginContents, url_login \in BOOLEAN, url_domain \in BOOLEAN}

MaxHeaders == 3     \* longest header row handed to a column mapping

HeadersCse == {HTime, HBidBroker, HAskBroker, HBuyerBroker, HBidPrice, HPrice,
               HAskPrice, HBidSize, HVolume, HAskSize, HTradeId, HOther}
HeadersStockwatch == {HTimeET, HEx, HExchange, HPrice, HBidPrice, HAskPrice,
                      HChange, HVolume, HBuyer, HSeller, HMarkers, HOther}

MapCalls ==
    {[op |-> "map_columns_cse", headers |-> hs] : hs \in SeqsUpTo(HeadersCse, MaxHeaders)}
    \cup {[op |-> "map_columns_stockwatch", headers |-> hs] :
              hs \in SeqsUpTo(HeadersStockwatch, MaxHeaders)}

CseCalls ==
    {[op |-> "scrape_cse_trades", symbol |-> symbol, today |-> 20241116, cpage |-> cpage] :
        symbol \in {"DOCT", "aapl"}, cpage \in CsePages}

\* the depth files met by a Venue-A pass, and the listing pages it scrapes
DepthJsonFiles == {Absent, Invalid, NonArray, Arr(<<>>), Arr(<<DepthC>>)}
DepthCsvFiles ==
    {CsvAbsent, CsvFile(<<>>),
     CsvFile(<<HeaderLine(Fieldnames(<<DepthC>>)), RowLine(Fieldnames(<<DepthC>>), DepthC)>>)}
DepthPages ==
    {CsePage("ok", "ok", TRUE, Table(HeadersDepth, <<RowBoth, RowBuyerOnly>>)),
     CsePage("ok", "ok", TRUE, Table(HeadersSales, <<RowBoth>>)),
     CsePage("ok", "ok", TRUE, Table(HeadersDepth, <<RowNoData>>)),
     CsePage("ok", "ok", TRUE, Table(HeadersDepth, <<>>)),
     CsePage("timeout", "ok", TRUE, TableNoRows),
     CsePage("ok", "ok", FALSE, TableNoRows)}
DepthCalls ==
    {[op |-> "depth_pass", driver |-> driver, symbol |-> "DOCT", today |-> 20241116,
      cpage |-> cpage, json |-> json, csv |-> csv, jio |-> jio, cio |-> cio] :
        driver \in {"range", "single"}, cpage \in DepthPages, json \in DepthJsonFiles,
        csv \in DepthCsvFiles, jio \in IOOutcomes, cio \in {"ok", "open_fails"}}

\* records that differ in nothing but carrying an identity field with the
\* value 0 or "" where the other has no such field
TradeZero == [symbol |-> "DOCT", date |-> 20241115, time_et |-> "09:32:00",
              exchange |-> "", price |-> 0, volume |-> 200, buyer |-> "", seller |-> "",
              markers |-> ""]
DepthZero == [timestamp |-> "2024-11-15", price |-> 151, volume |-> 100,
              buyer_broker |-> "ABC", seller_broker |-> "XYZ",
              bid_price |-> 0, ask_price |-> 0, bid_size |-> 0, ask_size |-> 0]

\* the dataset files handed to the deduplicator
DedupCalls ==
    {[op |-> "dedup", ds |-> "trades", f |-> Arr(x)] :
        x \in SeqsUpTo({TradeX, TradeZ, TradeZero}, MaxNew + 1)}
    \cup {[op |-> "dedup", ds |-> "depth_chart", f |-> Arr(x)] :
              x \in SeqsUpTo({DepthA, DepthC, DepthZero}, MaxNew + 1)}

\* a day's trades stored again by a repeated run, then one deduplicator pass
RerunCalls ==
    {[op |-> "rerun", f |-> f, trades |-> trades] :
        f \in {Absent, Invalid, NonArray} \cup {Arr(x) : x \in SeqsUpTo(Trades, MaxNew)},
        trades \in SeqsUpTo(Trades, MaxNew)}

CallsInit ==
    /\ StoreIdle /\ DatesIdle /\ DayIdle /\ RangeIdle
    /\ fnInput \in LoginCalls \cup MapCalls \cup CseCalls \cup DepthCalls \cup RerunCalls
                 \cup DedupCalls
    /\ fnResult = [called |-> FALSE]

CallLoginStockwatch ==
    /\ fnInput.op = "login_stockwatch" /\ ~fnResult.called
    /\ fnResult' = [called |-> TRUE, value |-> login_stockwatch(fnInput.lp)]
    /\ UNCHANGED <<fnInput, storeVars, dateVars, dayVars, rangeVars>>

\* the header loop of scrape_cse_trades
CallMapColumnsCse ==
    /\ fnInput.op = "map_columns_cse" /\ ~fnResult.called
    /\ fnResult' = [called |-> TRUE, value |-> MapColumnsCse(fnInput.headers, 0, EmptyDict)]
    /\ UNCHANGED <<fnInput, storeVars, dateVars, dayVars, rangeVars>>

\* the header loop of scrape_stockwatch_trades
CallMapColumnsStockwatch ==
    /\ fnInput.op = "map_columns_stockwatch" /\ ~fnResult.called
    /\ fnResult' = [called |-> TRUE, value |-> MapColumns(fnInput.headers, 0, EmptyDict)]
    /\ UNCHANGED <<fnInput, storeVars, dateVars, dayVars, rangeVars>>

CallScrapeCseTrades ==
    /\ fnInput.op = "scrape_cse_trades" /\ ~fnResult.called
    /\ fnResult' = [called |-> TRUE,
                    raised |-> scrape_cse_trades_raises(fnInput.cpage),
                    accesses |-> TableAccessesCse(fnInput.cpage.table),
                    value |-> scrape_cse_trades(fnInput.symbol, fnInput.today, fnInput.cpage)]
    /\ UNCHANGED <<fnInput, storeVars, dateVars, dayVars, rangeVars>>

\* the Venue-A pass of the range driver or of the single-day scraper
CallDepthPass ==
    /\ fnInput.op = "depth_pass" /\ ~fnResult.called
    /\ fnResult' =
          [called |-> TRUE,
           trades |-> scrape_cse_trades(fnInput.symbol, fnInput.today, fnInput.cpage),
           value |-> IF fnInput.driver = "range"
                     THEN scrape_cse_depth_chart(fnInput.symbol, fnInput.today, fnInput.cpage,
                                                 fnInput.json, fnInput.csv, fnInput.jio, fnInput.cio)
                     ELSE main_cse(fnInput.symbol, fnInput.today, fnInput.cpage,
                                   fnInput.json, fnInput.csv, fnInput.jio, fnInput.cio)]
    /\ UNCHANGED <<fnInput, storeVars, dateVars, dayVars, rangeVars>>

\* save_stockwatch_trades once, twice and three times, each followed by
\* deduplicate_trades
CallRerun ==
    /\ fnInput.op = "rerun" /\ ~fnResult.called
    /\ LET once == save_stockwatch_trades(fnInput.f, fnInput.trades, "ok")
           twice == save_stockwatch_trades(once, fnInput.trades, "ok")
           thrice == save_stockwatch_trades(twice, fnInput.trades, "ok")
       IN fnResult' = [called |-> TRUE,
                       stored |-> <<once, twice, thrice>>,
                       value |-> <<deduplicate_trades(once, "ok"),
                                   deduplicate_trades(twice, "ok"),
                                   deduplicate_trades(thrice, "ok")>>]
    /\ UNCHANGED <<fnInput, storeVars, dateVars, dayVars, rangeVars>>

\* deduplicate_trades or deduplicate_depth_chart on a dataset file
CallDeduplicate ==
    /\ fnInput.op = "dedup" /\ ~fnResult.called
    /\ fnResult' = [called |-> TRUE,
                    value |-> IF fnInput.ds = "trades" THEN deduplicate_trades(fnInput.f, "ok")
                              ELSE deduplicate_depth_chart(fnInput.f, "ok")]
    /\ UNCHANGED <<fnInput, storeVars, dateVars, dayVars, rangeVars>>

CallsNext ==
    \/ CallDepthPass
    \/ CallDeduplicate
    \/ CallRerun
    \/ CallLoginStockwatch
    \/ CallMapColumnsCse
    \/ CallMapColumnsStockwatch
    \/ CallScrapeCseTrades

SpecCalls == CallsInit /\ [][CallsNext]_vars

\* the login form was found and submitted
Submitted(lp) == lp.nav = "ok" /\ lp.form = "ok"

\* C11: when the login form was submitted, login_stockwatch returns False if
\* the page content holds any of "invalid", "incorrect", "error", "failed",
\* "wrong", "trouble logging", whatever the URL, and True otherwise, whatever
\* the URL, one that still holds "login" and not the portal's domain included.
C11_LoginResult ==
    (fnInput.op = "login_stockwatch" /\ fnResult.called /\ Submitted(fnInput.lp))
    => fnResult.value =
         (fnInput.lp.content
            \cap {"invalid", "incorrect", "error", "failed", "wrong", "trouble logging"} = {})

C11_Witness ==
    /\ fnInput.op = "login_stockwatch" /\ fnResult.called /\ Submitted(fnInput.lp)
    /\ fnInput.lp.content = {"welcome"}
    /\ fnInput.lp.url_login /\ ~fnInput.lp.url_domain
    /\ fnResult.value

\* s.upper() for the symbols tried
UpperOf(sym) == IF sym \in {"doct", "DOCT"} THEN "DOCT" ELSE "AAPL"

\* C12: every trade the Venue-B scraper returns for (symbol, date) carries the
\* symbol in upper case and the date it was asked for (today's when none was
\* given), whatever the header row mapped.
C12_TradesCarrySymbolAndDate ==
    (dayResult.called /\ ~dayResult.result.raised)
    => \A i \in 1..Len(dayResult.result.trades) :
          LET trade == dayResult.result.trades[i]
          IN /\ "symbol" \in DOMAIN trade /\ "date" \in DOMAIN trade
             /\ trade["symbol"] = UpperOf(dayInput.symbol)
             /\ trade["date"] = IF dayInput.date = None THEN dayInput.today
                                ELSE dayInput.date

C12_Witness ==
    /\ dayResult.called /\ dayInput.symbol = "aapl" /\ dayInput.date = None
    /\ dayInput.page.table = TableNoPrice
    /\ Len(dayResult.result.trades) = 1
    /\ dayResult.result.trades[1]["symbol"] = "AAPL"
    /\ dayResult.result.trades[1]["date"] = 20241116

-----------------------------------------------------------------------------
(* Claims about the column mappings *)

MappingDone == fnInput.op \in {"map_columns_cse", "map_columns_stockwatch"} /\ fnResult.called

\* the logical fields a header stands for, taken alone
FieldsOfHeader(h) ==
    IF fnInput.op = "map_columns_cse" THEN DOMAIN MapHeaderCse(h, 0, EmptyDict)
    ELSE IF FieldOf(h) = "" THEN {} ELSE {FieldOf(h)}

\* the 0-based indices of the headers that stand for field f
ColumnsOf(f) ==
    {i \in 0..(Len(fnInput.headers) - 1) : f \in FieldsOfHeader(fnInput.headers[i + 1])}

MinOf(S) == CHOOSE x \in S : \A y \in S : x <= y
MaxOf(S) == CHOOSE x \in S : \A y \in S : x >= y

\* C13 as stated: every mapped field has the index of the first header that
\* stands for it; ["Bid Price", "Price", "Ask Price"] gives price the index 0.
C13_Original ==
    MappingDone
    => /\ \A f \in DOMAIN fnResult.value : fnResult.value[f] = MinOf(ColumnsOf(f))
       /\ fnInput.headers = <<HBidPrice, HPrice, HAskPrice>> => fnResult.value["price"] = 0

\* the columns of a Venue-A header row that stand for `quoted` (a bid or an
\* ask column), and those that stand for f without being such a column
QuotedColumns(quoted) == UNION {ColumnsOf(q) : q \in quoted}
PlainColumns(f, quoted) == ColumnsOf(f) \ QuotedColumns(quoted)

\* C13: a field is mapped exactly when some header stands for it.  In the
\* Venue-B mapping the last such header wins.  In the Venue-A mapping the last
\* one wins too, except for price and volume: the last plain price (volume)
\* column wins, and without one the first bid or ask price (size) column.
\* ["Bid Price", "Price", "Ask Price"] gives price the index 1 in Venue A and
\* 2 in Venue B.
C13_MappingPrecedence ==
    MappingDone
    => LET col == fnResult.value
           Expected(f) ==
               IF fnInput.op = "map_columns_cse" /\ f \in {"price", "volume"}
               THEN LET quoted == IF f = "price" THEN {"bid_price", "ask_price"}
                                  ELSE {"bid_size", "ask_size"}
                    IN IF PlainColumns(f, quoted) # {} THEN MaxOf(PlainColumns(f, quoted))
                       ELSE MinOf(QuotedColumns(quoted))
               ELSE MaxOf(ColumnsOf(f))
       IN /\ \A f \in DOMAIN col : ColumnsOf(f) # {} /\ col[f] = Expected(f)
          /\ \A i \in 1..Len(fnInput.headers) :
                FieldsOfHeader(fnInput.headers[i]) \subseteq DOMAIN col
          /\ fnInput.headers = <<HBidPrice, HPrice, HAskPrice>>
             => col["price"] = IF fnInput.op = "map_columns_cse" THEN 1 ELSE 2

C13_Witness ==
    /\ MappingDone /\ fnInput.op = "map_columns_cse"
    /\ fnInput.headers = <<HBidPrice, HPrice, HAskPrice>>
    /\ fnResult.value["price"] = 1 /\ fnResult.value["bid_price"] = 0

-----------------------------------------------------------------------------
(* Claims about the rows kept *)

\* the Venue-A scrape got to the rows of a table
CseRowsRead ==
    /\ fnInput.op = "scrape_cse_trades" /\ fnResult.called
    /\ fnInput.cpage.nav = "ok" /\ fnInput.cpage.debug_file = "ok"
    /\ fnInput.cpage.table_found /\ fnInput.cpage.table.has_header_row

\* the text a row has in the column of field f ("" without such a column)
TextIn(cells, col, f) == IF HasCol(col, f, cells) THEN cells[col[f] + 1].text ELSE ""

\* the price a row has (None without a price column or a readable price)
PriceIn(cells, col) == IF HasCol(col, "price", cells) THEN cells[col["price"] + 1].float ELSE None

\* a Venue-A row yields a buyer broker, a seller broker or a price
YieldsCse(cells, col) ==
    \/ TextIn(cells, col, "buyer") # ""
    \/ TextIn(cells, col, "seller") # ""
    \/ PriceIn(cells, col) # None

\* C14 as stated: of the rows of at least three cells, exactly those that
\* yield a buyer broker, a seller broker or a price (0 included) are emitted.
C14_Original ==
    CseRowsRead
    => LET rows == fnInput.cpage.table.rows
           col == ColumnsCse(fnInput.cpage.table.headers)
           kept == {i \in DOMAIN rows : Len(rows[i]) >= 3 /\ YieldsCse(rows[i], col)}
       IN /\ Len(fnResult.value) = Cardinality(kept)
          /\ \A j \in 1..Len(fnResult.value) :
                LET cells == rows[Nth(kept, j)]
                IN /\ fnResult.value[j]["buyer_broker"] = TextIn(cells, col, "buyer")
                   /\ fnResult.value[j]["seller_broker"] = TextIn(cells, col, "seller")
                   /\ fnResult.value[j]["price"] = PriceIn(cells, col)

\* the volume a row has (None without a volume column or a readable volume)
VolumeIn(cells, col) == IF HasCol(col, "volume", cells) THEN cells[col["volume"] + 1].int ELSE None

\* C15: the Venue-B scraper returns one trade for each row of at least three
\* cells that has a readable price or a readable volume, in row order, and
\* none for the other rows; the trade of a row with one of the two unreadable
\* has null there and the value of the other.
C15_RowsWithPriceOrVolume ==
    (dayResult.called /\ "parse" \in SeqElems(dayResult.result.steps)
     /\ dayInput.page.table.has_header_row)
    => LET rows == dayInput.page.table.rows
           col == MapColumns(dayInput.page.table.headers, 0, EmptyDict)
           kept == {i \in DOMAIN rows :
                       /\ Len(rows[i]) >= 3
                       /\ PriceIn(rows[i], col) # None \/ VolumeIn(rows[i], col) # None}
           trades == dayResult.result.trades
       IN /\ Len(trades) = Cardinality(kept)
          /\ \A j \in 1..Len(trades) :
                LET cells == rows[Nth(kept, j)]
                IN /\ Get(trades[j], "price", None) = PriceIn(cells, col)
                   /\ Get(trades[j], "volume", None) = VolumeIn(cells, col)
                   /\ Get(trades[j], "price", None) # None
                      \/ Get(trades[j], "volume", None) # None

C15_Witness ==
    /\ dayResult.called /\ dayInput.page.table = TableTwo
    /\ Len(dayResult.result.trades) = 2
    /\ dayResult.result.trades[2]["price"] = None
    /\ dayResult.result.trades[2]["volume"] = 200

-----------------------------------------------------------------------------
(* Claims about the Store and the Deduplicator on files that are no array *)

\* C16 as stated: an append to a file that is absent, unparseable or no JSON
\* array leaves exactly the new records in the file.
C16_Original ==
    (lastOp.op = "append" /\ lastOp.append /\ lastOp.io = "ok"
     /\ old.kind \in {"absent", "invalid", "nonarray"})
    => file = Arr(lastOp.recs)

\* C17: whatever the save of a day's trades meets (a file that does not
\* parse, a file that is no array, a write that fails), nothing is raised to
\* the range driver: the day is in successful_dates, not in failed_dates, its
\* trades are counted, and the loop goes on to the next date or to its end.
C17_SaveNeverRaises ==
    \A i \in 1..DaysOver :
        (~log[i].raised /\ log[i].trades # <<>>)
        => /\ log[i].io # "none"
           /\ log[i].date \in SeqElems(successful_dates)
           /\ log[i].date \notin SeqElems(FailedDateList)
           /\ total_trades >= Len(log[i].trades)
           /\ pc \in {"scrape", "save", "return", "done"}
           /\ pc \in {"scrape", "save"} => day_idx > i

C17_Witness ==
    /\ pc = "scrape" /\ Len(log) = 2 /\ day_idx = 3
    /\ file_at_start = Invalid
    /\ log[1].io = "ok" /\ log[2].io = "dump_fails"
    /\ Len(successful_dates) = 2 /\ failed_dates = <<>>

\* C18: a Deduplicator run on a dataset file that is missing, unparseable or
\* no JSON array returns 0 and does not touch the file: it is not opened for
\* writing and is afterwards what it was (missing, if it was missing).
C18_DedupLeavesNoArrayAlone ==
    (lastOp.op = "dedup" /\ old.kind \in {"absent", "invalid", "nonarray"})
    => /\ lastOp.removed = 0
       /\ ~lastOp.wrote
       /\ file = old

C18_Witness ==
    /\ lastOp.op = "dedup" /\ dataset = "trades"
    /\ old = NonArray /\ file = NonArray /\ lastOp.removed = 0

-----------------------------------------------------------------------------
(* Claims about the credentials *)

\* the day's scrape ended with a credential error: nothing but the date check
\* and the loading of the credentials was done
CredentialError(e) == e.raised /\ e.steps = <<"validate_date", "load_auth">>

\* C19 as stated, for the range run: after a credential error no further date
\* is attempted.
C19_Original ==
    \A i \in 1..Len(log) : CredentialError(log[i]) => Len(log) = i

\* the position of a step in the steps of the call (0 when it was not taken)
StepAt(step) ==
    LET steps == dayResult.result.steps
    IN IF step \in SeqElems(steps) THEN CHOOSE k \in DOMAIN steps : steps[k] = step ELSE 0

\* the credentials of the call, trimmed, have an empty or reserved value
ReservedCredentials ==
    LET a == dayInput.auth_env
        from_env == a.env_user # "" /\ a.env_pass # ""
        u == IF from_env THEN a.env_user ELSE a.secrets.username
        pw == IF from_env THEN a.env_pass ELSE a.secrets.password
    IN /\ from_env \/ (a.secrets.kind = "object" /\ a.secrets.has_username
                        /\ a.secrets.has_password)
       /\ \/ Strip(u) \in {"", "your_username_here", "your_password_here"}
          \/ Strip(pw) \in {"", "your_username_here", "your_password_here"}

DateAsked == IF dayInput.date = None THEN dayInput.today ELSE dayInput.date

\* C20: an invalid date raises ValueError ("Invalid date format") before the
\* credentials are loaded; credentials with an empty (after trimming) or
\* reserved username or password raise ValueError ("Placeholder credentials")
\* before a browser is launched; when a browser is launched, the date check
\* and the loading of the credentials came before it.
C20_ChecksBeforeBrowser ==
    dayResult.called
    => LET r == dayResult.result
       IN /\ ~strptime(DateAsked).ok
             => /\ r.raised /\ r.exc = "ValueError" /\ r.msg = "Invalid date format"
                /\ StepAt("load_auth") = 0 /\ StepAt("launch_browser") = 0
          /\ (strptime(DateAsked).ok /\ ReservedCredentials)
             => /\ r.raised /\ r.exc = "ValueError"
                /\ r.msg = "Placeholder credentials found in secrets.json"
                /\ StepAt("launch_browser") = 0
          /\ StepAt("launch_browser") # 0
             => /\ strptime(DateAsked).ok /\ ~ReservedCredentials
                /\ 0 < StepAt("validate_date")
                /\ StepAt("validate_date") < StepAt("load_auth")
                /\ StepAt("load_auth") < StepAt("launch_browser")

C20_Witness ==
    /\ dayResult.called /\ dayInput.auth_env = AuthBlankPassword
    /\ dayInput.date = 20241115
    /\ dayResult.result.raised
    /\ dayResult.result.msg = "Placeholder credentials found in secrets.json"
    /\ dayResult.result.steps = <<"validate_date", "load_auth">>

-----------------------------------------------------------------------------
(* Claims about the errors of the Venue-A scrape *)

\* the Venue-A scrape met a timeout, a browser or file error, or no table
CseFailed ==
    \/ fnInput.cpage.nav # "ok" \/ fnInput.cpage.debug_file # "ok"
    \/ ~fnInput.cpage.table_found \/ ~fnInput.cpage.table.has_header_row

\* float() or int() raised on the price or volume cell of the row
ParseExceptionIn(cells, col) ==
    \/ HasCol(col, "price", cells) /\ cells[col["price"] + 1].float = None
    \/ HasCol(col, "volume", cells) /\ cells[col["volume"] + 1].int = None

\* the rows of at least three cells with a broker or a price that counts
RowsKeptCse ==
    LET rows == fnInput.cpage.table.rows
        col == ColumnsCse(fnInput.cpage.table.headers)
    IN {i \in DOMAIN rows :
          /\ Len(rows[i]) >= 3
          /\ \/ TextIn(rows[i], col, "buyer") # "" \/ TextIn(rows[i], col, "seller") # ""
             \/ PriceIn(rows[i], col) \notin {None, 0}}

\* C21 as stated: scrape_cse_trades never raises, and a timeout, a browser
\* error, a table that is not found or a parsing exception gives an empty list.
C21_Original ==
    (fnInput.op = "scrape_cse_trades" /\ fnResult.called)
    => /\ ~fnResult.raised
       /\ CseFailed => fnResult.value = <<>>
       /\ (CseRowsRead /\ \E i \in DOMAIN fnInput.cpage.table.rows :
              /\ Len(fnInput.cpage.table.rows[i]) >= 3
              /\ ParseExceptionIn(fnInput.cpage.table.rows[i],
                                  ColumnsCse(fnInput.cpage.table.headers)))
          => fnResult.value = <<>>

\* C21: scrape_cse_trades never raises; a timeout, a browser or file error or
\* a table that is not found gives an empty list; a parsing exception in a
\* cell leaves that field null and the rows are kept or dropped by their
\* brokers and price alone.
C21_CseNeverRaises ==
    (fnInput.op = "scrape_cse_trades" /\ fnResult.called)
    => /\ ~fnResult.raised
       /\ CseFailed => fnResult.value = <<>>
       /\ CseRowsRead => Len(fnResult.value) = Cardinality(RowsKeptCse)

C21_Witness ==
    /\ fnInput.op = "scrape_cse_trades" /\ fnResult.called /\ CseRowsRead
    /\ fnInput.cpage.table.headers = HeadersDepth
    /\ fnInput.cpage.table.rows = <<RowBuyerOnly, RowBoth>>
    /\ Len(fnResult.value) = 2 /\ fnResult.value[1].price = None

-----------------------------------------------------------------------------
(* Claims about the wait for the results table *)

\* the day's scrape got to the table wait, and the table did not become
\* visible within the 30 seconds
TableWaitTimedOut ==
    /\ dayResult.called /\ StepAt("wait_table") # 0
    /\ dayInput.page.table_wait = "timeout"

\* C22: when the results table does not become visible within the wait: with
\* "no trades" or "no data" in the page the scraper returns an empty list
\* without raising (and without capturing); otherwise it makes the direct
\* capture, and when the table is still absent returns an empty list without
\* raising or parsing.
C22_TableWaitTimeout ==
    TableWaitTimedOut
    => LET r == dayResult.result
       IN /\ ~r.raised
          /\ dayInput.page.no_data_text
             => /\ r.trades = <<>>
                /\ StepAt("capture") = 0 /\ StepAt("parse") = 0
          /\ ~dayInput.page.no_data_text
             => /\ StepAt("capture") > StepAt("wait_table")
                /\ ~dayInput.page.table_at_capture
                   => r.trades = <<>> /\ StepAt("parse") = 0

C22_Witness ==
    /\ TableWaitTimedOut
    /\ ~dayInput.page.no_data_text /\ ~dayInput.page.table_at_capture
    /\ StepAt("capture") # 0 /\ dayResult.result.trades = <<>>
    /\ ~dayResult.result.raised

-----------------------------------------------------------------------------
(* Claims about interrupted writes *)

\* every record of the first file is in the second
HoldsAllOf(f, g) ==
    f.kind = "array" => (g.kind = "array" /\ SeqElems(f.recs) \subseteq SeqElems(g.recs))

\* C23 as stated: when the process is interrupted at any point of a Store
\* append or of a deduplicator write-back, the dataset file still holds all
\* the records it held after the last completed write.
C23_Original ==
    lastOp.op = "interrupted" => HoldsAllOf(old, file)

-----------------------------------------------------------------------------
(* Claims about the depth files *)

\* a Venue-A pass was made, and both writes (if any) met no I/O error
DepthPassDone(driver) ==
    /\ fnInput.op = "depth_pass" /\ fnResult.called /\ fnInput.driver = driver
    /\ fnInput.jio = "ok" /\ fnInput.cio = "ok"

\* the lines are one line per trade, in order, none a header, each with the
\* trade's values under the columns of this batch ("" for a field it lacks)
LinesOfTrades(lines, trades) ==
    /\ Len(lines) = Len(trades)
    /\ \A i \in DOMAIN lines :
          ~lines[i].header /\ lines[i] = RowLine(Fieldnames(trades), trades[i])

\* C24: with rows scraped, the range driver leaves depth_chart.json holding
\* exactly these rows and depth_chart.csv holding one header line and these
\* rows; the single-day scraper leaves depth_chart.json (absent or an array
\* before) holding the old records followed by the rows, and depth_chart.csv
\* holding the old lines followed by the rows, with a header line first only
\* if the file did not exist.  With no rows scraped neither file is touched.
C24_DepthFiles ==
    /\ (fnInput.op = "depth_pass" /\ fnResult.called /\ fnResult.trades = <<>>)
       => fnResult.value = [json |-> fnInput.json, csv |-> fnInput.csv]
    /\ (DepthPassDone("range") /\ fnResult.trades # <<>>)
       => /\ fnResult.value.json = Arr(fnResult.trades)
          /\ fnResult.value.csv.kind = "file"
          /\ Len(fnResult.value.csv.lines) = 1 + Len(fnResult.trades)
          /\ fnResult.value.csv.lines[1].header
          /\ LinesOfTrades(Tail(fnResult.value.csv.lines), fnResult.trades)
    /\ (DepthPassDone("single") /\ fnResult.trades # <<>>)
       => /\ fnInput.json.kind \in {"absent", "array"}
             => fnResult.value.json = Arr(fnInput.json.recs \o fnResult.trades)
          /\ fnResult.value.csv.kind = "file"
          /\ LET new == fnResult.value.csv.lines
                 n == Len(fnInput.csv.lines)
             IN IF fnInput.csv.kind = "absent"
                THEN /\ Len(new) = 1 + Len(fnResult.trades) /\ new[1].header
                     /\ LinesOfTrades(Tail(new), fnResult.trades)
                ELSE /\ Len(new) = n + Len(fnResult.trades)
                     /\ SubSeq(new, 1, n) = fnInput.csv.lines
                     /\ LinesOfTrades(SubSeq(new, n + 1, Len(new)), fnResult.trades)

C24_Witness ==
    /\ DepthPassDone("single") /\ Len(fnResult.trades) = 2
    /\ fnInput.json = Arr(<<DepthC>>) /\ Len(fnInput.csv.lines) = 2
    /\ Len(fnResult.value.json.recs) = 3 /\ Len(fnResult.value.csv.lines) = 4

-----------------------------------------------------------------------------
(* Claims about the bid and ask columns of Venue A *)

\* C25 as stated: in the Venue-A mapping, without a plain price column, price
\* is a Bid Price column whenever there is one, and an Ask Price column only
\* when there is no Bid Price column, in whatever order the two stand; the
\* same for volume with Bid Size and Ask Size.
C25_Original ==
    (fnInput.op = "map_columns_cse" /\ fnResult.called)
    => /\ PlainColumns("price", {"bid_price", "ask_price"}) = {}
          => /\ ColumnsOf("bid_price") # {}
                => fnResult.value["price"] \in ColumnsOf("bid_price")
             /\ (ColumnsOf("bid_price") = {} /\ ColumnsOf("ask_price") # {})
                => fnResult.value["price"] \in ColumnsOf("ask_price")
       /\ PlainColumns("volume", {"bid_size", "ask_size"}) = {}
          => /\ ColumnsOf("bid_size") # {}
                => fnResult.value["volume"] \in ColumnsOf("bid_size")
             /\ (ColumnsOf("bid_size") = {} /\ ColumnsOf("ask_size") # {})
                => fnResult.value["volume"] \in ColumnsOf("ask_size")

-----------------------------------------------------------------------------
(* Claims about the column indices *)

\* the column map the rows of the call are read with
ColumnMapUsed == ColumnsCse(fnInput.cpage.table.headers)

\* every index of the map is below the number of header cells
WithinHeaders(col) == \A f \in DOMAIN col : col[f] < Len(fnInput.cpage.table.headers)

\* every read of a cell is below the row's cell count
ReadsWithinRows ==
    \A a \in fnResult.accesses : a[2] < Len(fnInput.cpage.table.rows[a[1]])

\* C26 as stated: every column map has its indices below the number of header
\* cells, the default positional map included; no cell is read at or beyond
\* the row's cell count.
C26_Original == CseRowsRead => (WithinHeaders(ColumnMapUsed) /\ ReadsWithinRows)

\* C26: every column map made from recognised headers has its indices below
\* the number of header cells; the default positional map has the indices 0
\* to 4 whatever the number of header cells; no cell is read at or beyond the
\* row's cell count.
C26_ColumnIndices ==
    CseRowsRead
    => /\ MapColumnsCse(fnInput.cpage.table.headers, 0, EmptyDict) # EmptyDict
          => WithinHeaders(ColumnMapUsed)
       /\ MapColumnsCse(fnInput.cpage.table.headers, 0, EmptyDict) = EmptyDict
          => ColumnMapUsed = [timestamp |-> 0, price |-> 1, volume |-> 2,
                              buyer |-> 3, seller |-> 4]
       /\ ReadsWithinRows

C26_Witness ==
    /\ CseRowsRead /\ fnInput.cpage.table.headers = HeadersDepth
    /\ fnInput.cpage.table.rows = <<RowThree, RowBoth>>
    /\ <<2, 5>> \in fnResult.accesses /\ <<1, 2>> \in fnResult.accesses
    /\ <<1, 5>> \notin fnResult.accesses

-----------------------------------------------------------------------------
(* Claims about the steps of one day's scrape *)

\* the steps of the portal, in the order of the code
PortalSteps == <<"login", "search", "more_trades", "fill_date", "submit",
                 "wait_table", "capture", "parse">>

\* the steps taken were taken in the fixed order, none left out
StepsInOrder ==
    \A k \in 2..Len(PortalSteps) :
        StepAt(PortalSteps[k]) # 0
        => (StepAt(PortalSteps[k - 1]) # 0
            /\ StepAt(PortalSteps[k - 1]) < StepAt(PortalSteps[k]))

\* the scrape ended at the step: an error went to the caller, nothing came after
RaisedAt(step) ==
    /\ dayResult.result.raised /\ dayResult.result.trades = <<>>
    /\ StepAt(step) = Len(dayResult.result.steps)

\* the step was reached and its element (form, box, link, input, button,
\* table) was not on the page
MissingAt(step) ==
    /\ StepAt(step) # 0
    /\ CASE step = "login" -> dayInput.page.login.nav = "ok" /\ dayInput.page.login.form = "missing"
          [] step = "search" -> dayInput.page.search = "missing"
          [] step = "more_trades" -> dayInput.page.more = "missing"
          [] step = "fill_date" -> dayInput.page.date_input = "missing"
          [] step = "submit" -> dayInput.page.submit = "missing"
          [] step = "capture" -> ~dayInput.page.table_at_capture

\* C27 as stated: the steps happen in the fixed order, and a step whose
\* element is missing raises to the caller, with no later step and no trade.
C27_Original ==
    dayResult.called
    => /\ StepsInOrder
       /\ \A step \in {"login", "search", "more_trades", "fill_date", "submit", "capture"} :
             MissingAt(step) => RaisedAt(step)

\* C27: the steps happen in the fixed order; a missing search box, "More
\* trades" link, date input or submit button raises ValueError to the caller,
\* with no later step and no trade; a missing login form raises nothing, the
\* scrape goes on to the search; a table that is absent when captured gives
\* an empty list without raising, and nothing is parsed.
C27_StepsOfADay ==
    dayResult.called
    => /\ StepsInOrder
       /\ \A step \in {"search", "more_trades", "fill_date", "submit"} :
             MissingAt(step) => (RaisedAt(step) /\ dayResult.result.exc = "ValueError")
       /\ MissingAt("login")
          => (StepAt("goto_home") = StepAt("login") + 1
              /\ (dayInput.page.home = "ok" => StepAt("search") # 0))
       /\ MissingAt("capture")
          => (~dayResult.result.raised /\ dayResult.result.trades = <<>>
              /\ StepAt("parse") = 0)

C27_Witness ==
    /\ dayResult.called /\ MissingAt("more_trades") /\ RaisedAt("more_trades")
    /\ StepAt("login") # 0 /\ StepAt("search") # 0 /\ StepAt("fill_date") = 0

-----------------------------------------------------------------------------
(* Claims about repeated runs *)

\* no two records of the file share an identity tuple
OnePerTradeKey(f) ==
    \A i, j \in DOMAIN f.recs : get_trade_key(f.recs[i]) = get_trade_key(f.recs[j]) => i = j

\* C28: for any dataset file and any day's trade list (writes meeting no I/O
\* error), storing the list twice, or three times, and deduplicating leaves
\* the same file as storing it once and deduplicating, and that file holds at
\* most one record per identity tuple.
C28_RerunThenDedup ==
    (fnInput.op = "rerun" /\ fnResult.called)
    => /\ fnResult.value[2].file = fnResult.value[1].file
       /\ fnResult.value[3].file = fnResult.value[1].file
       /\ \A k \in 1..3 : OnePerTradeKey(fnResult.value[k].file)

C28_Witness ==
    /\ fnInput.op = "rerun" /\ fnResult.called
    /\ fnInput.f = Arr(<<TradeX>>) /\ fnInput.trades = <<TradeY, TradeZ>>
    /\ Len(fnResult.stored[2].recs) = 5 /\ fnResult.value[2].removed = 2
    /\ fnResult.value[1].removed = 0
    /\ fnResult.value[2].file = Arr(<<TradeX, TradeY, TradeZ>>)

-----------------------------------------------------------------------------
(* Claims about the count of the summary *)

\* C29 as stated: at the end of a range run total_trades is the number of
\* records the run added to trades.json (its length after the run less its
\* length before), and the trades of every day counted as successful with
\* trades are in the file.
C29_Original ==
    summary.returned
    => /\ summary.total_trades = Len(file.recs) - Len(file_at_start.recs)
       /\ \A i \in 1..Len(log) :
             (~log[i].raised /\ log[i].trades # <<>>)
             => (file.kind = "array" /\ SeqElems(log[i].trades) \subseteq SeqElems(file.recs))

-----------------------------------------------------------------------------
(* Claims about the identity tuple *)

\* the fields of the identity tuple of the call's dataset, those counted as 0
\* when absent and those counted as ""
NumberFields ==
    IF fnInput.ds = "trades" THEN {"date", "price", "volume"}
    ELSE {"price", "volume", "bid_price", "ask_price", "bid_size", "ask_size"}
TextFields ==
    IF fnInput.ds = "trades" THEN {"time_et", "exchange", "buyer", "seller"}
    ELSE {"timestamp", "buyer_broker", "seller_broker"}

\* two records agree on every identity field, an absent field agreeing with
\* an absent field only
AgreeStrictly(a, b) ==
    \A f \in NumberFields \cup TextFields :
        /\ (f \in DOMAIN a) = (f \in DOMAIN b)
        /\ f \in DOMAIN a => a[f] = b[f]

\* two records agree on every identity field, an absent field counting as 0
\* (as "" for a field of text)
AgreeWithDefaults(a, b) ==
    /\ \A f \in NumberFields : Get(a, f, 0) = Get(b, f, 0)
    /\ \A f \in TextFields : Get(a, f, "") = Get(b, f, "")

\* the positions of the file whose record the deduplicator dropped: the
\* result is the file without them, in order
Dropped(P) ==
    LET recs == fnInput.f.recs
        K == DOMAIN recs \ P
    IN /\ Len(fnResult.value.file.recs) = Cardinality(K)
       /\ \A n \in 1..Cardinality(K) : fnResult.value.file.recs[n] = recs[Nth(K, n)]

\* C30 as stated: the deduplicator drops a record only when it agrees with an
\* earlier record on every identity field, absent agreeing with absent only.
C30_Original ==
    (fnInput.op = "dedup" /\ fnResult.called)
    => \E P \in SUBSET {i \in DOMAIN fnInput.f.recs :
                          \E j \in 1..(i - 1) :
                              AgreeStrictly(fnInput.f.recs[i], fnInput.f.recs[j])} :
          Dropped(P)

\* C30: the deduplicator drops exactly the records that agree with an earlier
\* record on every identity field, where an absent field agrees with an
\* absent field and with the value 0 (price, volume, sizes, date) or ""
\* (the other fields).
C30_DedupIdentity ==
    (fnInput.op = "dedup" /\ fnResult.called)
    => Dropped({i \in DOMAIN fnInput.f.recs :
                  \E j \in 1..(i - 1) : AgreeWithDefaults(fnInput.f.recs[i], fnInput.f.recs[j])})

C30_Witness ==
    /\ fnInput.op = "dedup" /\ fnResult.called
    /\ fnInput.f = Arr(<<TradeZero, TradeX, TradeZ>>)
    /\ fnResult.value.file = Arr(<<TradeZero, TradeX>>) /\ fnResult.value.removed = 1

=============================================================================
